---- MODULE Spec2Model ----
(***************************************************************************)
(* TalentScout hiring assistant: the conversation engine of chatbot.py     *)
(* (HiringAssistant, CandidateInfo, GeminiClient), the helpers of utils.py *)
(* it calls, and the chat-input handling of app.py.                        *)
(*                                                                         *)
(* Representation.  A Python string is a sequence of tokens (the words of  *)
(* the string; a tech_stack string is the sequence of its comma-joined     *)
(* entries).  An Optional field is None (the empty tuple) or Some(v), the  *)
(* one-element tuple holding v.  A text produced by the program or by the  *)
(* generation service is a record whose "kind" names the literal or the    *)
(* template it was built from and whose other fields are the values        *)
(* substituted into it.                                                    *)
(***************************************************************************)
EXTENDS Integers, Sequences, FiniteSets, TLC

VARIABLES
    candidate_data,          \* HiringAssistant.candidate_data (CandidateInfo)
    conversation_phase,      \* HiringAssistant.conversation_phase
    questions,               \* HiringAssistant.questions
    current_question_index,  \* HiringAssistant.current_question_index (0-based)
    conversation_history,    \* HiringAssistant.conversation_history
    cache,                   \* GeminiClient.cache: set of <<prompt, text>>
    messages,                \* st.session_state.messages (the UI transcript)
    initialized,             \* st.session_state.initialized
    last,                    \* what the most recent call did and returned
    call,                    \* one call of a function on its own: arguments, result
    peer                     \* a second browser session: its HiringAssistant

vars == <<candidate_data, conversation_phase, questions, current_question_index,
          conversation_history, cache, messages, initialized, last, call, peer>>

----------------------------------------------------------------------------
(* Bounds of the model *)

\* user messages accepted in one session
MaxMessages == 6
\* of which at most this many show exit intent
MaxExits == 2
\* distinct wordings the service may give for one prompt
MaxVariants == 2

----------------------------------------------------------------------------
(* Optional values and Python truthiness *)

None == <<>>
Some(v) == <<v>>
Val(o) == o[1]

\* bool(x) for an Optional string or list: None, "" and [] are falsy
Truthy(o) == o # None /\ Val(o) # <<>>

\* Python's `x or d`
OrElse(o, d) == IF Truthy(o) THEN Val(o) ELSE d

Min(a, b) == IF a < b THEN a ELSE b

----------------------------------------------------------------------------
(* CandidateInfo *)

RequiredFields == <<"full_name", "email", "tech_stack">>
OptionalFields == <<"phone", "experience_years", "desired_positions", "location">>
AllFields == <<"full_name", "email", "phone", "experience_years",
               "desired_positions", "location", "tech_stack">>
FieldNames == {AllFields[i] : i \in 1..Len(AllFields)}

EmptyProfile == [f \in FieldNames |-> None]

\* to_dict: the fields whose value is not None
to_dict(cd) == {f \in FieldNames : cd[f] # None}

RequiredWeight == 15
OptionalWeight == 5

completion_percentage(cd) ==
    LET fields == to_dict(cd)
        required_complete == Cardinality({i \in 1..Len(RequiredFields) : RequiredFields[i] \in fields})
        optional_complete == Cardinality({i \in 1..Len(OptionalFields) : OptionalFields[i] \in fields})
    IN  Min(required_complete * RequiredWeight + optional_complete * OptionalWeight, 100)

\* the entries of the list fs, in order, that are falsy in cd
RECURSIVE MissingOf(_, _)
MissingOf(cd, fs) ==
    IF fs = <<>> THEN <<>>
    ELSE (IF Truthy(cd[Head(fs)]) THEN <<>> ELSE <<Head(fs)>>) \o MissingOf(cd, Tail(fs))

\* missing_fields without its second part: the optional fields are never
\* reported
missing_fields_RequiredOnly(cd) == MissingOf(cd, RequiredFields)

\* missing_fields reporting the optional fields along with the required ones
missing_fields_AllAtOnce(cd) == MissingOf(cd, RequiredFields \o OptionalFields)

missing_fields(cd) ==
    LET missing == MissingOf(cd, RequiredFields)
    IN  IF missing = <<>> THEN MissingOf(cd, OptionalFields) ELSE missing

\* is_complete looking at the required fields only
is_complete_RequiredOnly(cd) == \A i \in 1..Len(RequiredFields) : Truthy(cd[RequiredFields[i]])

is_complete(cd) == \A i \in 1..Len(AllFields) : Truthy(cd[AllFields[i]])

----------------------------------------------------------------------------
(* Words.  str.lower, str.capitalize and str.isalpha on the words of the   *)
(* model's messages; every other token (digits, an e-mail address) is      *)
(* non-alphabetic and is its own lower-case and capitalized form.          *)

\* <<lower-case word, its capitalized form>>
WordForms ==
    { <<"john", "John">>, <<"smith", "Smith">>, <<"ann", "Ann">>, <<"lee", "Lee">>,
      <<"hi", "Hi">>, <<"there", "There">>, <<"stop", "Stop">>, <<"bye", "Bye">>,
      <<"python", "Python">>, <<"react", "React">>, <<"java", "Java">>,
      <<"berlin", "Berlin">>, <<"years", "Years">>, <<"developer", "Developer">>,
      <<"backend", "Backend">>, <<"fine", "Fine">>, <<"thanks", "Thanks">>,
      <<"c", "C">> }

\* <<upper-case word, its lower-case form>>
UpperForms == { <<"STOP", "stop">>, <<"I", "i">>, <<"Quit", "quit">>, <<"Screening", "screening">> }

Lower(w) ==
    IF \E p \in WordForms : p[2] = w THEN (CHOOSE p \in WordForms : p[2] = w)[1]
    ELSE IF \E p \in UpperForms : p[1] = w THEN (CHOOSE p \in UpperForms : p[1] = w)[2]
    ELSE w

Capitalize(w) ==
    IF \E p \in WordForms : p[1] = Lower(w) THEN (CHOOSE p \in WordForms : p[1] = Lower(w))[2]
    ELSE w

isalpha(w) == \E p \in WordForms : p[1] = Lower(w)

\* s.lower(), word by word
LowerAll(s) == [i \in 1..Len(s) |-> Lower(s[i])]

\* [x for x in s if x in keep]
RECURSIVE Keep(_, _)
Keep(s, keep) ==
    IF s = <<>> THEN <<>>
    ELSE (IF Head(s) \in keep THEN <<Head(s)>> ELSE <<>>) \o Keep(Tail(s), keep)

Range(s) == {s[i] : i \in 1..Len(s)}

----------------------------------------------------------------------------
(* HiringAssistant._check_exit_intent *)

ExitWords == {"bye", "goodbye", "stop", "exit", "quit"}
ExitPhrases == { <<"exit", "interview">>, <<"quit", "screening">>,
                 <<"end", "chat">>, <<"end", "conversation">> }

\* A token that is not one run of word characters: its runs of word
\* characters (\w+), and whether its first and its last character are word
\* characters.  Every other token of the model is a single run.
Punctuated ==
    { [tok |-> "bye!", runs |-> <<"bye">>, starts |-> TRUE, ends |-> FALSE],
      [tok |-> "bye-bye", runs |-> <<"bye", "bye">>, starts |-> TRUE, ends |-> TRUE],
      [tok |-> "(exit", runs |-> <<"exit">>, starts |-> FALSE, ends |-> TRUE],
      [tok |-> "exit,", runs |-> <<"exit">>, starts |-> TRUE, ends |-> FALSE],
      [tok |-> "conversation.", runs |-> <<"conversation">>, starts |-> TRUE, ends |-> FALSE],
      [tok |-> "john@x.com", runs |-> <<"john", "x", "com">>, starts |-> TRUE, ends |-> TRUE],
      [tok |-> "+491234567890", runs |-> <<"491234567890">>, starts |-> FALSE, ends |-> TRUE] }

WordRuns(w) ==
    IF \E p \in Punctuated : p.tok = w THEN (CHOOSE p \in Punctuated : p.tok = w).runs
    ELSE <<w>>
StartsWord(w) == \A p \in Punctuated : p.tok = w => p.starts
EndsWord(w) == \A p \in Punctuated : p.tok = w => p.ends

\* the exit words matched anywhere in the message, not only at its start
_check_exit_intent_AnyWord(text) ==
    \/ \E i \in 1..Len(text) : Lower(text[i]) \in ExitWords
    \/ \E i \in 1..(Len(text) - 1) : <<Lower(text[i]), Lower(text[i + 1])>> \in ExitPhrases

\* text.lower().strip() as tokens separated by white space.  ^word\b matches
\* a first token that begins with the word and a boundary; \bw1\s+w2\b matches
\* two adjacent tokens, the first ending with w1 after a boundary and the
\* second beginning with w2 and a boundary; the bare-word list repeats the
\* ^word\b patterns.
_check_exit_intent(text) ==
    LET text_lower == LowerAll(text)
    IN  \/ /\ text_lower # <<>>
           /\ StartsWord(text_lower[1])
           /\ WordRuns(text_lower[1])[1] \in ExitWords
        \/ \E i \in 1..(Len(text_lower) - 1) :
              /\ EndsWord(text_lower[i])
              /\ StartsWord(text_lower[i + 1])
              /\ <<WordRuns(text_lower[i])[Len(WordRuns(text_lower[i]))],
                    WordRuns(text_lower[i + 1])[1]>> \in ExitPhrases
        \/ Len(text_lower) = 1 /\ text_lower[1] \in {"bye", "goodbye", "exit", "quit", "stop"}

----------------------------------------------------------------------------
(* Prompts and texts *)

\* get_initial_greeting's prompt (SYSTEM_PROMPT plus the greeting request)
GreetingPrompt == [kind |-> "greeting"]
\* EXTRACTION_PROMPT.format(existing_data, user_input)
ExtractionPrompt(existing_data, user_input) ==
    [kind |-> "extraction", existing_data |-> existing_data, user_input |-> user_input]
\* QUESTION_GENERATION_PROMPT.format(tech_name, years_of_experience, random_seed);
\* the uuid4 seed makes every such prompt new and is left out
QuestionPrompt(tech_name, years_of_experience) ==
    [kind |-> "question", tech_name |-> tech_name, years_of_experience |-> years_of_experience]
\* CONCLUSION_PROMPT.format(name, tech_stack, completion)
ConclusionPrompt(name, tech_stack, completion) ==
    [kind |-> "conclusion", name |-> name, tech_stack |-> tech_stack, completion |-> completion]

\* `phrase in prompt.lower()` for the three phrases _get_fallback_response
\* looks for, decided by the prompt's template (prompts.py)
PromptMentions(prompt, phrase) ==
    \/ phrase = "technical interview questions" /\ prompt.kind = "question"
    \/ phrase = "extract candidate information" /\ prompt.kind = "extraction"
    \/ phrase = "conclusion" /\ prompt.kind = "conclusion"

\* what the service answered to `prompt`; body is the wording (a variant
\* number), the JSON value or the number of question lines of the answer
ServiceText(prompt, body) == [kind |-> "service", prompt |-> prompt, body |-> body]

\* the literals GeminiClient returns itself
HighDemandText == [kind |-> "high_demand"]
TroubleText == [kind |-> "trouble"]
FallbackQuestionsText == [kind |-> "fallback_questions"]
EmptyJsonText == [kind |-> "empty_json"]
FallbackConclusionText == [kind |-> "fallback_conclusion"]
FallbackGenericText == [kind |-> "fallback_generic"]

----------------------------------------------------------------------------
(* GeminiClient *)

max_retries == 3
retry_delay == 1

\* hashlib.md5 of "prompt|temperature", taken to be collision-free
_get_cache_key(prompt, temperature) == <<prompt, temperature>>

_generate_fallback_questions(prompt) == FallbackQuestionsText

\* a fallback that raises instead of returning a text
GeminiFallbackResponse_Raises(prompt) == [kind |-> "exception"]

GeminiFallbackResponse(prompt) ==
    IF PromptMentions(prompt, "technical interview questions") THEN _generate_fallback_questions(prompt)
    ELSE IF PromptMentions(prompt, "extract candidate information") THEN EmptyJsonText
    ELSE IF PromptMentions(prompt, "conclusion") THEN FallbackConclusionText
    ELSE FallbackGenericText

\* a backoff that does not double
Pow2_NoDoubling(n) == 1

RECURSIVE Pow2(_)
Pow2(n) == IF n = 0 THEN 1 ELSE 2 * Pow2(n - 1)

\* One service attempt ends "ok" (response.text is `body`), "rate" (an error
\* whose text has 429 / RESOURCE_EXHAUSTED) or "err" (any other exception).
Outcomes == {"ok", "rate", "err"}

\* the retry loop from `attempt` on; svc[attempt + 1] is that attempt's outcome
RECURSIVE RetryLoop(_, _, _, _, _, _, _)
RetryLoop(attempt, prompt, use_cache, temperature, svc, body, c) ==
    IF attempt >= max_retries
    THEN [text |-> TroubleText, cache |-> c, attempts |-> attempt, sleeps |-> <<>>]
    ELSE IF svc[attempt + 1] = "ok"
    THEN LET result == ServiceText(prompt, body)
             key == _get_cache_key(prompt, temperature)
         IN  [text |-> result,
              cache |-> IF use_cache
                        THEN [k \in DOMAIN c \cup {key} |-> IF k = key THEN result ELSE c[k]]
                        ELSE c,
              attempts |-> attempt + 1, sleeps |-> <<>>]
    ELSE IF svc[attempt + 1] = "rate"
    THEN IF attempt < max_retries - 1
         THEN LET rest == RetryLoop(attempt + 1, prompt, use_cache, temperature, svc, body, c)
              IN  [rest EXCEPT !.sleeps = <<retry_delay * Pow2(attempt)>> \o @]
         ELSE [text |-> HighDemandText, cache |-> c, attempts |-> attempt + 1, sleeps |-> <<>>]
    ELSE IF attempt = max_retries - 1
         THEN [text |-> GeminiFallbackResponse(prompt), cache |-> c,
               attempts |-> attempt + 1, sleeps |-> <<>>]
         ELSE LET rest == RetryLoop(attempt + 1, prompt, use_cache, temperature, svc, body, c)
              IN  [rest EXCEPT !.sleeps = <<retry_delay>> \o @]

\* 1 if the generate call g went to the service, 0 if the cache answered it
Called(g) == IF g.attempts > 0 THEN 1 ELSE 0

\* the cache is not looked up: the service is asked and its answer is stored
generate_IgnoresCache(prompt, use_cache, temperature, svc, body, c) ==
    RetryLoop(0, prompt, TRUE, temperature, svc, body, c)

\* GeminiClient.generate: the text returned, the cache afterwards, the number
\* of service attempts made and the sleeps taken
generate(prompt, use_cache, temperature, svc, body, c) ==
    LET cache_key == _get_cache_key(prompt, temperature)
    IN  IF use_cache /\ cache_key \in DOMAIN c
        THEN [text |-> c[cache_key], cache |-> c, attempts |-> 0, sleeps |-> <<>>]
        ELSE RetryLoop(0, prompt, use_cache, temperature, svc, body, c)

----------------------------------------------------------------------------
(* HiringAssistant._extract_info and _fallback_extraction *)

\* the direct-name test of _extract_info: 1 to 3 words, each alphabetic, of
\* length >= 2 and not a greeting ('@' and '.' cannot occur in such a word)
DirectNameDenylist == {"hi", "hello", "hey"}
FallbackGreetings == {"hi", "hello", "hey", "good", "morning", "afternoon",
                      "evening", "dear", "sir", "madam"}

\* the name test without its greeting check
LooksLikeName_NoDenylist(words, denylist) ==
    /\ 1 <= Len(words) /\ Len(words) <= 3
    /\ \A i \in 1..Len(words) : isalpha(words[i]) /\ Len(words[i]) >= 2

LooksLikeName(words, denylist) ==
    /\ 1 <= Len(words) /\ Len(words) <= 3
    /\ \A i \in 1..Len(words) :
          isalpha(words[i]) /\ Len(words[i]) >= 2 /\ Lower(words[i]) \notin denylist

\* ' '.join(w.capitalize() for w in words)
ProperName(words) == [i \in 1..Len(words) |-> Capitalize(words[i])]

\* Tokens matched by the regular expressions of _fallback_extraction.
\* [\w\.-]+@[\w\.-]+\.\w+
EmailTokens == {"john@x.com", "ann@y.org"}
\* \+?\d[\d\s-]{8,}\d
PhoneTokens == {"+491234567890", "12-34-56-78"}
\* \d+
DigitTokens == {"3", "7", "12", "75"}
\* years?|yrs?  (also the (year|yr) test of the context-aware guard)
YearTokens == {"year", "years", "yr", "yrs"}

\* re.search(...).group(): the leftmost word of text that is in the set
FirstIn(text, words) ==
    text[CHOOSE i \in 1..Len(text) : text[i] \in words /\ \A j \in 1..(i - 1) : text[j] \notin words]

IsEmail(w) == w \in EmailTokens
IsPhone(w) == w \in PhoneTokens

\* positions i with text[i] digits and text[i+1] a years word:
\* (\d+)\s*(?:years?|yrs?)
\* an experience pattern that matches nothing
ExpPositions_None(text) == {}

ExpPositions(text) ==
    {i \in 1..(Len(text) - 1) : text[i] \in DigitTokens /\ Lower(text[i + 1]) \in YearTokens}

tech_keywords ==
    <<"python", "java", "javascript", "typescript", "react", "angular",
      "vue", "django", "flask", "spring", "node", "sql", "mysql",
      "postgresql", "mongodb", "aws", "docker", "kubernetes", "git",
      "html", "css", "php", "ruby", "c++", "c#", "go", "rust", "swift">>

\* \b tech \b found in text, ignoring case: some word of the text is the
\* keyword.  After the final '+' or '#' of "c++" and "c#" the trailing \b
\* needs a word character to follow, so these two never match a whole word.
KeywordInText(tech, text) ==
    /\ tech \notin {"c++", "c#"}
    /\ \E i \in 1..Len(text) : Lower(text[i]) = tech

\* The technology names of the model, in the order sorted() gives them
TechOrder == <<";", "c", "c++", "docker", "fooscript", "java", "javascript", "python",
               "react", "sql", "technologies", "various">>

\* `a in b` for lower-case names: the pairs <<a, b>> with a a proper substring
\* of b, where one of the two is a name of TechOrder and the other a name of
\* TechOrder or a keyword of the source's lists
ProperSubstrings ==
    { <<"c", "c#">>, <<"c", "c++">>, <<"c", "cassandra">>, <<"c", "confluence">>,
      <<"c", "css">>, <<"c", "docker">>, <<"c", "elasticsearch">>, <<"c", "fooscript">>,
      <<"c", "gcp">>, <<"c", "javascript">>, <<"c", "oracle">>, <<"c", "pycharm">>,
      <<"c", "react">>, <<"c", "technologies">>, <<"c", "typescript">>, <<"c", "vscode">>,
      <<"java", "javascript">>, <<"sql", "mysql">>, <<"sql", "postgresql">> }

IsSubstring(a, b) == a = b \/ <<a, b>> \in ProperSubstrings

\* t.lower() in current.lower(), current being the comma-joined entries
InTechStack(t, current) == \E i \in 1..Len(current) : IsSubstring(Lower(t), Lower(current[i]))

\* ^(I am|I'm|looking for|interested in|apply for|wanted to be a|a|an)\s+
LeadingFillers ==
    << <<"i", "am">>, <<"i'm">>, <<"looking", "for">>, <<"interested", "in">>,
       <<"apply", "for">>, <<"wanted", "to", "be", "a">>, <<"a">>, <<"an">> >>

StartsWith(text, pre) ==
    Len(text) > Len(pre) /\ LowerAll(SubSeq(text, 1, Len(pre))) = pre

StripLeadingFiller(text) ==
    IF \E k \in 1..Len(LeadingFillers) : StartsWith(text, LeadingFillers[k])
    THEN LET k == CHOOSE k \in 1..Len(LeadingFillers) :
                      /\ StartsWith(text, LeadingFillers[k])
                      /\ \A j \in 1..(k - 1) : ~StartsWith(text, LeadingFillers[j])
         IN  SubSeq(text, Len(LeadingFillers[k]) + 1, Len(text))
    ELSE text

\* words made only of the characters '"' and '.', which str.strip('".') removes
QuoteDotTokens == {"...", "\"\""}

\* text.strip('".')
RECURSIVE StripQuoteDot(_)
StripQuoteDot(text) ==
    IF text = <<>> THEN <<>>
    ELSE IF Head(text) \in QuoteDotTokens THEN StripQuoteDot(Tail(text))
    ELSE IF text[Len(text)] \in QuoteDotTokens THEN StripQuoteDot(SubSeq(text, 1, Len(text) - 1))
    ELSE text

\* s.strip(", ") of comma-joined entries: entries that are a bare comma go
\* from both ends
RECURSIVE StripCommas(_)
StripCommas(s) ==
    IF s = <<>> THEN <<>>
    ELSE IF Head(s) = "," THEN StripCommas(Tail(s))
    ELSE IF s[Len(s)] = "," THEN StripCommas(SubSeq(s, 1, Len(s) - 1))
    ELSE s

\* the fallback extraction storing an e-mail address found in the text
\* whether or not one is stored already
_fallback_extraction_OverwritesEmail(cd, phase, text) ==
    IF ~Truthy(cd.full_name) /\ LooksLikeName(text, FallbackGreetings)
    THEN [cd EXCEPT !.full_name = Some(ProperName(text))]
    ELSE
    LET setEmail == \E i \in 1..Len(text) : IsEmail(text[i])
        cd1 == IF setEmail THEN [cd EXCEPT !.email = Some(<<FirstIn(text, EmailTokens)>>)] ELSE cd
        setPhone == (\E i \in 1..Len(text) : IsPhone(text[i])) /\ ~Truthy(cd1.phone)
        cd2 == IF setPhone THEN [cd1 EXCEPT !.phone = Some(<<FirstIn(text, PhoneTokens)>>)] ELSE cd1
        exp == ExpPositions(text)
        setExp == exp # {} /\ ~Truthy(cd2.experience_years)
        cd3 == IF setExp
               THEN [cd2 EXCEPT !.experience_years =
                        Some(<<text[CHOOSE i \in exp : \A j \in exp : i <= j]>>)]
               ELSE cd2
        found_techs == Keep(tech_keywords, {t \in Range(tech_keywords) : KeywordInText(t, text)})
        current == OrElse(cd3.tech_stack, <<>>)
        new_techs == Keep(found_techs, {t \in Range(found_techs) : ~InTechStack(t, current)})
        setTech == found_techs # <<>> /\ new_techs # <<>>
        cd4 == IF setTech THEN [cd3 EXCEPT !.tech_stack = Some(StripCommas(current \o new_techs))] ELSE cd3
        info_found == setEmail \/ setPhone \/ setExp \/ setTech
        missing == missing_fields(cd4)
        guess == /\ phase = "InfoGathering" /\ ~info_found
                 /\ missing # <<>>
                 /\ Len(text) <= 6
                 /\ ~(Len(text) = 1 /\ text[1] \in DigitTokens)
                 /\ exp = {}
    IN  IF guess /\ missing[1] = "desired_positions" /\ ~Truthy(cd4.desired_positions)
        THEN [cd4 EXCEPT !.desired_positions = Some(<<StripQuoteDot(StripLeadingFiller(text))>>)]
        ELSE IF guess /\ missing[1] = "location" /\ ~Truthy(cd4.location)
        THEN [cd4 EXCEPT !.location = Some(StripQuoteDot(text))]
        ELSE cd4

_fallback_extraction(cd, phase, text) ==
    IF ~Truthy(cd.full_name) /\ LooksLikeName(text, FallbackGreetings)
    THEN [cd EXCEPT !.full_name = Some(ProperName(text))]
    ELSE
    LET setEmail == (\E i \in 1..Len(text) : IsEmail(text[i])) /\ ~Truthy(cd.email)
        cd1 == IF setEmail THEN [cd EXCEPT !.email = Some(<<FirstIn(text, EmailTokens)>>)] ELSE cd
        setPhone == (\E i \in 1..Len(text) : IsPhone(text[i])) /\ ~Truthy(cd1.phone)
        cd2 == IF setPhone THEN [cd1 EXCEPT !.phone = Some(<<FirstIn(text, PhoneTokens)>>)] ELSE cd1
        exp == ExpPositions(text)
        setExp == exp # {} /\ ~Truthy(cd2.experience_years)
        cd3 == IF setExp
               THEN [cd2 EXCEPT !.experience_years =
                        Some(<<text[CHOOSE i \in exp : \A j \in exp : i <= j]>>)]
               ELSE cd2
        found_techs == Keep(tech_keywords, {t \in Range(tech_keywords) : KeywordInText(t, text)})
        current == OrElse(cd3.tech_stack, <<>>)
        new_techs == Keep(found_techs, {t \in Range(found_techs) : ~InTechStack(t, current)})
        setTech == found_techs # <<>> /\ new_techs # <<>>
        cd4 == IF setTech THEN [cd3 EXCEPT !.tech_stack = Some(StripCommas(current \o new_techs))] ELSE cd3
        info_found == setEmail \/ setPhone \/ setExp \/ setTech
        missing == missing_fields(cd4)
        guess == /\ phase = "InfoGathering" /\ ~info_found
                 /\ missing # <<>>
                 /\ Len(text) <= 6
                 /\ ~(Len(text) = 1 /\ text[1] \in DigitTokens)
                 /\ exp = {}
    IN  IF guess /\ missing[1] = "desired_positions" /\ ~Truthy(cd4.desired_positions)
        THEN [cd4 EXCEPT !.desired_positions = Some(<<StripQuoteDot(StripLeadingFiller(text))>>)]
        ELSE IF guess /\ missing[1] = "location" /\ ~Truthy(cd4.location)
        THEN [cd4 EXCEPT !.location = Some(StripQuoteDot(text))]
        ELSE cd4

\* Attributes of a CandidateInfo other than its fields: hasattr is true of
\* them, and setattr on them raises ValueError (pydantic: no such field)
OtherAttributes == {"dict", "json", "copy", "to_dict", "is_complete"}

hasattr(key) == key \in FieldNames \cup OtherAttributes

\* the merge loop without its test of the value: a null or empty value is
\* stored like any other
RECURSIVE MergeItems_StoresFalsy(_, _)
MergeItems_StoresFalsy(cd, items) ==
    IF items = <<>> THEN [cd |-> cd, raised |-> FALSE]
    ELSE LET key == Head(items)[1]
             value == Head(items)[2]
         IN  IF hasattr(key)
             THEN IF key \in FieldNames
                  THEN MergeItems_StoresFalsy(
                           [cd EXCEPT ![key] = IF value = <<>> THEN None ELSE Some(value)],
                           Tail(items))
                  ELSE [cd |-> cd, raised |-> TRUE]
             ELSE MergeItems_StoresFalsy(cd, Tail(items))

\* the merge loop over extracted.items(); raised = setattr raised
RECURSIVE MergeItems(_, _)
MergeItems(cd, items) ==
    IF items = <<>> THEN [cd |-> cd, raised |-> FALSE]
    ELSE LET key == Head(items)[1]
             value == Head(items)[2]
         IN  IF value # <<>> /\ hasattr(key)
             THEN IF key \in FieldNames
                  THEN MergeItems([cd EXCEPT ![key] = Some(value)], Tail(items))
                  ELSE [cd |-> cd, raised |-> TRUE]
             ELSE MergeItems(cd, Tail(items))

\* What the cleaned response is to json.loads and the code around it:
\*   "skip"        blank or exactly "{}": nothing is parsed
\*   "invalid"     not JSON: JSONDecodeError
\*   "non_object"  JSON but no dict: .items() raises AttributeError
\*   "object"      a dict, with its items in order
JsonSkip == [json |-> "skip", items |-> <<>>]
JsonInvalid == [json |-> "invalid", items |-> <<>>]
JsonNonObject == [json |-> "non_object", items |-> <<>>]
JsonObject(items) == [json |-> "object", items |-> items]

ParseJson(text) ==
    IF text.kind = "service" THEN text.body
    ELSE IF text.kind = "empty_json" THEN JsonSkip
    ELSE JsonInvalid

\* _extract_info: the profile and the cache afterwards, the generate calls
\* made, and the path taken ("direct", "model", "skip" or "fallback")
_extract_info(cd, phase, user_input, svc, body, c) ==
    IF ~Truthy(cd.full_name) /\ LooksLikeName(user_input, DirectNameDenylist)
    THEN [cd |-> [cd EXCEPT !.full_name = Some(ProperName(user_input))],
          cache |-> c, calls |-> 0, path |-> "direct"]
    ELSE
    LET g == generate(ExtractionPrompt(cd, user_input), FALSE, 1, svc, body, c)
        parsed == ParseJson(g.text)
        merged == MergeItems(cd, parsed.items)
    IN  IF parsed.json = "skip"
        THEN [cd |-> cd, cache |-> g.cache, calls |-> Called(g), path |-> "skip"]
        ELSE IF parsed.json = "object" /\ ~merged.raised
        THEN [cd |-> merged.cd, cache |-> g.cache, calls |-> Called(g), path |-> "model"]
        ELSE [cd |-> _fallback_extraction(merged.cd, phase, user_input),
              cache |-> g.cache, calls |-> Called(g), path |-> "fallback"]

----------------------------------------------------------------------------
(* Validator (utils.py) *)

\* ^[\w\.-]+@[\w\.-]+\.\w+$ on the stripped string
validate_email(email) == Len(email) = 1 /\ email[1] \in EmailTokens

\* <<phone string, number of characters left when separators are removed>>,
\* for the strings of which only digits are left
PhoneForms == { <<"+491234567890", 12>>, <<"12-34-56-78", 8>> }

validate_phone(phone) ==
    Len(phone) = 1 /\ \E p \in PhoneForms : p[1] = phone[1] /\ p[2] >= 10

\* at least 2 characters, letters and spaces only
validate_name(name) ==
    /\ \A i \in 1..Len(name) : isalpha(name[i])
    /\ Len(name) >= 2 \/ (Len(name) = 1 /\ Len(name[1]) >= 2)

----------------------------------------------------------------------------
(* TechStackParser (utils.py) *)

CategoryNames == <<"languages", "frontend", "backend", "databases", "devops", "tools">>

CATEGORIES ==
    [languages |-> <<"python", "java", "c", "javascript", "typescript", "c++", "c#",
                     "ruby", "go", "rust", "php", "swift", "kotlin">>,
     frontend |-> <<"react", "angular", "vue", "svelte", "html", "css", "jquery",
                    "bootstrap", "tailwind">>,
     backend |-> <<"django", "flask", "spring", "express", "node.js", "laravel",
                   "rails", "asp.net">>,
     databases |-> <<"sql", "mysql", "postgresql", "mongodb", "redis", "elasticsearch",
                     "cassandra", "oracle">>,
     devops |-> <<"docker", "kubernetes", "jenkins", "aws", "azure", "gcp", "terraform",
                  "ansible">>,
     tools |-> <<"git", "jira", "confluence", "postman", "vscode", "pycharm">>]

\* entries that hold separators only: re.split(r'[,;\s]+') leaves nothing of them
SeparatorTokens == {",", ";"}

\* re.split(r'[,;\s]+', tech_stack_str.lower()), empty pieces dropped
SplitTechs(tech_stack_str) ==
    Keep(LowerAll(tech_stack_str), Range(LowerAll(tech_stack_str)) \ SeparatorTokens)

\* the inner loop over a category's keywords: does tech match one of them
MatchesCategory(tech, keywords) ==
    \E i \in 1..Len(keywords) :
        IF Len(keywords[i]) <= 2 THEN tech = keywords[i]
        ELSE IsSubstring(keywords[i], tech) \/ IsSubstring(tech, keywords[i])

\* TechStackParser.parse: category -> set of tokens (absent categories are
\* the empty set), with the uncategorized tokens under "other"
parse(tech_stack_str) ==
    LET techs == SplitTechs(tech_stack_str)
        found(cat) == {t \in Range(techs) : MatchesCategory(t, CATEGORIES[cat])}
        all_categorized == UNION {found(CategoryNames[i]) : i \in 1..Len(CategoryNames)}
    IN  [cat \in Range(CategoryNames) \cup {"other"} |->
            IF cat = "other" THEN Range(techs) \ all_categorized ELSE found(cat)]

\* float(experience) for the experience strings of the model: <<string, years>>
ExperienceValues ==
    { <<"0", 0>>, <<"1", 1>>, <<"2", 2>>, <<"3", 3>>, <<"4", 4>>, <<"5", 5>>, <<"7", 7>>,
      <<"12", 12>>, <<"75", 75>> }

\* 0 <= float(exp) <= 50; False when float() rejects the string
validate_experience(exp) ==
    Len(exp) = 1 /\ \E p \in ExperienceValues : p[1] = exp[1] /\ 0 <= p[2] /\ p[2] <= 50

\* `experience` is a string; the empty string (like None) is falsy and counts
\* as 0 years, and a string float() rejects gives "intermediate"
get_difficulty_level(tech_stack, experience) ==
    LET parsable == Len(experience) = 1 /\ \E p \in ExperienceValues : p[1] = experience[1]
        years == IF experience = <<>> THEN 0
                 ELSE (CHOOSE p \in ExperienceValues : p[1] = experience[1])[2]
    IN  IF experience # <<>> /\ ~parsable THEN "intermediate"
        ELSE IF years < 2 THEN "beginner"
        ELSE IF years < 5 THEN "intermediate"
        ELSE "advanced"

----------------------------------------------------------------------------
(* Question generation *)

\* fallback_map of _get_enhanced_fallback_questions: its keys in dict order,
\* the pool each key leads to ('js' is an alias) and the tiers a pool has
FallbackKeys == <<"python", "javascript", "js", "react", "java", "html", "css", "c">>
PoolOf(key) == IF key = "js" THEN "javascript" ELSE key
PoolTiers(pool) == IF pool = "python" THEN {"beginner", "intermediate", "advanced"} ELSE {"any"}
PoolSize(pool) == IF pool \in {"css", "c"} THEN 5 ELSE 10

\* A question is identified by where it comes from:
\*   "service"   parsed from the service's answer for `tech`, its k-th line
\*   "template"  k-th line of GeminiClient._generate_fallback_questions
\*   "bank"      k-th question random.sample drew from the pool (pool, tier)
\*   "generic"   k-th of the shuffled templates, formatted with `tech`
Question(src, tech, pool, tier, k) ==
    [src |-> src, tech |-> tech, pool |-> pool, tier |-> tier, k |-> k]

\* `key in tech_stack_lower`
KeyHit(key, tech_stack_lower) ==
    \E i \in 1..Len(tech_stack_lower) : IsSubstring(key, tech_stack_lower[i])

\* the matching loop: the pool of the first key found in the string, "" if
\* no key is found
MatchedPool(tech_stack_lower) ==
    IF \E n \in 1..Len(FallbackKeys) : KeyHit(FallbackKeys[n], tech_stack_lower)
    THEN PoolOf(FallbackKeys[CHOOSE n \in 1..Len(FallbackKeys) :
                                /\ KeyHit(FallbackKeys[n], tech_stack_lower)
                                /\ \A j \in 1..(n - 1) : ~KeyHit(FallbackKeys[j], tech_stack_lower)])
    ELSE ""

\* the tier whose list is sampled
TierOf(pool, difficulty) ==
    IF difficulty \in PoolTiers(pool) THEN difficulty
    ELSE IF "any" \in PoolTiers(pool) THEN "any"
    ELSE "intermediate"

\* the number of generic templates (defaults)
Defaults == 7

\* the length of the list random.sample or random.shuffle works on
SampledSize(tech_stack) ==
    IF MatchedPool(LowerAll(tech_stack)) # "" THEN PoolSize(MatchedPool(LowerAll(tech_stack)))
    ELSE Defaults

BankQuestions(tech_stack, pool, tier) ==
    IF pool # ""
    THEN [k \in 1..Min(3, PoolSize(pool)) |-> Question("bank", tech_stack, pool, tier, k)]
    ELSE [k \in 1..3 |-> Question("generic", tech_stack, "", "", k)]

_get_enhanced_fallback_questions(tech_stack, difficulty) ==
    BankQuestions(tech_stack, MatchedPool(LowerAll(tech_stack)),
                  TierOf(MatchedPool(LowerAll(tech_stack)), difficulty))

\* the entries of a list that hold no question mark: positions in the
\* pool (pool, tier), or among the generic templates when pool is ""
Statements(pool, tier) ==
    IF pool = "python"
    THEN IF tier = "beginner" THEN {1, 4, 7, 10}
         ELSE IF tier = "intermediate" THEN {1, 5, 7, 9}
         ELSE {1, 3, 5, 7, 9, 10}
    ELSE IF pool = "javascript" THEN {1, 3, 5, 7, 9}
    ELSE IF pool = "react" THEN {1, 3, 7}
    ELSE IF pool = "java" THEN {1, 4, 7, 9}
    ELSE IF pool = "html" THEN {2, 4, 7, 10}
    ELSE IF pool = "css" THEN {1, 3}
    ELSE IF pool = "c" THEN {1, 3, 5}
    ELSE {4, 6}

\* random.sample(pool, 3) / random.shuffle(defaults)[:3]: draw[k] is the
\* position in the list of the k-th question returned
Sampled(qs, draw) == [k \in 1..Len(qs) |-> [question |-> qs[k], entry |-> draw[k]]]

\* lines of GeminiClient._generate_fallback_questions that survive the line
\* filter of _generate_technical_questions: Q4 has no question mark
TemplateLines == <<1, 2, 3, 5>>

\* the questions parsed from the text generate returned for `tech`; the
\* body of a service answer to a question prompt is its number of lines that
\* pass the filter (digit/Q start or '?', and a '?' after the numbering)
ParsedQuestions(text, tech) ==
    IF text.kind = "service"
    THEN [k \in 1..text.body |-> Question("service", <<tech>>, "", "", k)]
    ELSE IF text.kind = "fallback_questions"
    THEN [i \in 1..Len(TemplateLines) |-> Question("template", <<tech>>, "", "", TemplateLines[i])]
    ELSE <<>>

\* sorted(list(set(all_techs))) of the parsed categories, or the comma split
all_techs_of(tech_stack_str) ==
    LET parsed == parse(tech_stack_str)
        cats == UNION {parsed[c] : c \in DOMAIN parsed}
        techs == IF cats # {} THEN cats
                 ELSE {t \in Range(tech_stack_str) : t # ","}
    IN  Keep(TechOrder, techs)

\* the loop body without `[:3]`
QuestionsFor_NoTruncation(tech, experience, text) ==
    IF Len(ParsedQuestions(text, tech)) < 3
    THEN _get_enhanced_fallback_questions(<<tech>>, get_difficulty_level(tech, experience))
    ELSE ParsedQuestions(text, tech)

\* the loop body for one technology: 3 questions
QuestionsFor(tech, experience, text) ==
    LET difficulty == get_difficulty_level(tech, experience)
        tech_questions == ParsedQuestions(text, tech)
        chosen == IF Len(tech_questions) < 3
                  THEN _get_enhanced_fallback_questions(<<tech>>, difficulty)
                  ELSE tech_questions
    IN  SubSeq(chosen, 1, Min(3, Len(chosen)))

RECURSIVE QuestionLoop(_, _, _, _)
QuestionLoop(techs, experience, replies, c) ==
    IF techs = <<>> THEN [questions |-> <<>>, calls |-> 0]
    ELSE LET g == generate(QuestionPrompt(Head(techs), experience), FALSE, 7,
                           Head(replies).svc, Head(replies).body, c)
             rest == QuestionLoop(Tail(techs), experience, Tail(replies), c)
         IN  [questions |-> QuestionsFor(Head(techs), experience, g.text) \o rest.questions,
              calls |-> Called(g) + rest.calls]

IntroText(tech_stack_str, total, question) ==
    [kind |-> "intro", tech_stack |-> tech_stack_str, total |-> total,
     number |-> 1, question |-> question]

\* the end of _generate_technical_questions: the questions are stored, the
\* index is reset and the intro with Question 1 is returned
StoreQuestions(tech_stack_str, final_questions, calls) ==
    [questions |-> final_questions,
     current_question_index |-> 0,
     calls |-> calls,
     response |-> IntroText(tech_stack_str, Len(final_questions), final_questions[1])]

\* `if not final_questions`: the bank is asked for the whole string
FinalQuestions(tech_stack_str, loop) ==
    StoreQuestions(tech_stack_str,
                   IF loop.questions = <<>>
                   THEN _get_enhanced_fallback_questions(tech_stack_str, "intermediate")
                   ELSE loop.questions,
                   loop.calls)

\* the loop over sorted(set(all_techs)), then the rest
QuestionsForStack(tech_stack_str, experience, replies, c) ==
    FinalQuestions(tech_stack_str,
                   QuestionLoop(all_techs_of(tech_stack_str), experience, replies, c))

\* _generate_technical_questions: replies[i] is the service's behaviour for
\* the i-th technology
_generate_technical_questions(cd, replies, c) ==
    QuestionsForStack(OrElse(cd.tech_stack, <<"various", "technologies">>),
                      OrElse(cd.experience_years, <<"mid-level">>), replies, c)

----------------------------------------------------------------------------
(* HiringAssistant: responses *)

FieldQuestion(field) == [kind |-> "field_question", field |-> field]
AnythingElseText == [kind |-> "anything_else"]
WelcomeText(name, question) == [kind |-> "welcome", name |-> name, question |-> question]
NextQuestionText(number, question) == [kind |-> "question", number |-> number, question |-> question]
EarlyConclusionText(name) == [kind |-> "early_conclusion", name |-> name]
UnexpectedPhaseText(phase) == [kind |-> "unexpected_phase", phase |-> phase]
GreetingFallbackText == [kind |-> "greeting_fallback"]

\* phase_questions has an entry for each of the seven fields
_get_next_question(cd) ==
    LET missing == missing_fields(cd)
    IN  IF missing = <<>> THEN AnythingElseText ELSE FieldQuestion(missing[1])

\* _get_conclusion.  generate returns a text on every path, so the except
\* branch with its own thank-you text is never entered.
_get_conclusion(cd, early, reply, c) ==
    LET name == OrElse(cd.full_name, <<"there">>)
        tech_stack == OrElse(cd.tech_stack, <<"your", "background">>)
        completion == completion_percentage(cd)
    IN  IF early
        THEN [text |-> EarlyConclusionText(name), cache |-> c, calls |-> 0]
        ELSE LET g == generate(ConclusionPrompt(name, tech_stack, completion), TRUE, 8,
                               reply.svc, reply.body, c)
             IN  [text |-> g.text, cache |-> g.cache, calls |-> Called(g)]

\* HiringAssistant._get_fallback_response, the answer for an unexpected phase
HiringFallbackResponse(phase) == UnexpectedPhaseText(phase)

----------------------------------------------------------------------------
(* Entries of conversation_history and of the UI transcript.  An entry    *)
(* keeps the role and a summary of the content: of a user message whether  *)
(* it shows exit intent, of an assistant text its kind and, for a          *)
(* technical question, the question's number.                              *)

Summary(text) ==
    [kind |-> text.kind, number |-> IF text.kind \in {"intro", "question"} THEN text.number ELSE 0]

UserEntry(user_input) ==
    [role |-> "user", content |-> IF _check_exit_intent(user_input) THEN "exit" ELSE "text"]
AssistantEntry(text) == [role |-> "assistant", content |-> Summary(text)]

----------------------------------------------------------------------------
(* HiringAssistant.process_message *)

NoReply == [svc |-> <<>>, body |-> 0]

\* The branches of process_message's dispatch.  s is the engine after the
\* user message was recorded and the extraction merged: its candidate_data
\* and cache are the extraction's, its calls the extraction's calls.

\* the exit branch dropping the pending questions
ExitBranch_DropsQuestions(s) ==
    LET concl == _get_conclusion(s.candidate_data, TRUE, NoReply, s.cache)
    IN  [s EXCEPT !.questions = <<>>,
                  !.current_question_index = 0,
                  !.cache = concl.cache,
                  !.response = concl.text,
                  !.calls = concl.calls,
                  !.branch = "exit"]

\* exit intent: the early conclusion is returned at once
ExitBranch(s) ==
    LET concl == _get_conclusion(s.candidate_data, TRUE, NoReply, s.cache)
    IN  [s EXCEPT !.cache = concl.cache,
                  !.response = concl.text,
                  !.calls = concl.calls,
                  !.branch = "exit"]

\* the Greeting branch entering Questioning at once
GreetingBranch_SkipsInfoGathering(s) ==
    [s EXCEPT !.conversation_phase = "Questioning",
              !.response = WelcomeText(OrElse(s.candidate_data.full_name, <<"there">>),
                                       _get_next_question(s.candidate_data))]

GreetingBranch(s) ==
    [s EXCEPT !.conversation_phase = "InfoGathering",
              !.response = WelcomeText(OrElse(s.candidate_data.full_name, <<"there">>),
                                       _get_next_question(s.candidate_data))]

\* Questioning is entered with what _generate_technical_questions did
EnterQuestioning(s, g) ==
    [s EXCEPT !.conversation_phase = "Questioning",
              !.questions = g.questions,
              !.current_question_index = g.current_question_index,
              !.response = g.response,
              !.calls = @ + g.calls]

\* qr: the service's behaviour for each technology's question prompt
InfoGatheringBranch(s, qr) ==
    IF is_complete(s.candidate_data)
    THEN EnterQuestioning(s, _generate_technical_questions(s.candidate_data, qr, s.cache))
    ELSE [s EXCEPT !.response = _get_next_question(s.candidate_data)]

\* the response is what _get_conclusion returned, in phase Conclusion
Conclude(s, concl) ==
    [s EXCEPT !.conversation_phase = "Conclusion",
              !.cache = concl.cache,
              !.response = concl.text,
              !.calls = @ + concl.calls]

\* the questions are drawn again from the bank for the profile as it is now
QuestioningBranch_Regenerates(s, cr) ==
    IF s.current_question_index < Len(s.questions) - 1
    THEN [s EXCEPT !.current_question_index = @ + 1,
                   !.questions = _get_enhanced_fallback_questions(
                                     OrElse(s.candidate_data.tech_stack, <<"various", "technologies">>),
                                     get_difficulty_level(<<>>, OrElse(s.candidate_data.experience_years,
                                                                       <<"mid-level">>))),
                   !.response = NextQuestionText(s.current_question_index + 2,
                                                 s.questions[s.current_question_index + 2])]
    ELSE Conclude(s, _get_conclusion(s.candidate_data, FALSE, cr, s.cache))

\* the index is advanced past the last question when the conclusion is given
QuestioningBranch_CountsPastEnd(s, cr) ==
    IF s.current_question_index < Len(s.questions) - 1
    THEN [s EXCEPT !.current_question_index = @ + 1,
                   !.response = NextQuestionText(s.current_question_index + 2,
                                                 s.questions[s.current_question_index + 2])]
    ELSE [Conclude(s, _get_conclusion(s.candidate_data, FALSE, cr, s.cache))
             EXCEPT !.current_question_index = @ + 1]

\* cr: the service's behaviour for the conclusion prompt
QuestioningBranch(s, cr) ==
    IF s.current_question_index < Len(s.questions) - 1
    THEN [s EXCEPT !.current_question_index = @ + 1,
                   !.response = NextQuestionText(s.current_question_index + 2,
                                                 s.questions[s.current_question_index + 2])]
    ELSE Conclude(s, _get_conclusion(s.candidate_data, FALSE, cr, s.cache))

ConclusionBranch(s, cr) ==
    Conclude(s, _get_conclusion(s.candidate_data, FALSE, cr, s.cache))

UnexpectedBranch(s) ==
    [s EXCEPT !.response = HiringFallbackResponse(s.conversation_phase),
              !.branch = "unexpected"]

\* the user message is appended to the history
Received(s, user_input) ==
    [s EXCEPT !.conversation_history = Append(@, UserEntry(user_input))]

\* the extraction's profile is dropped once the questions are being asked
Extracted_OnlyWhileGathering(s, e) ==
    [s EXCEPT !.candidate_data = IF s.conversation_phase \in {"Questioning", "Conclusion"}
                                 THEN @ ELSE e.cd,
              !.cache = e.cache,
              !.calls = e.calls,
              !.branch = s.conversation_phase]

\* the engine after _extract_info, e being what the extraction did
Extracted(s, e) ==
    [s EXCEPT !.candidate_data = e.cd,
              !.cache = e.cache,
              !.calls = e.calls,
              !.branch = s.conversation_phase]

\* the routing on conversation_phase
Route(s, qr, cr) ==
    IF s.conversation_phase = "Greeting" THEN GreetingBranch(s)
    ELSE IF s.conversation_phase = "InfoGathering" THEN InfoGatheringBranch(s, qr)
    ELSE IF s.conversation_phase = "Questioning" THEN QuestioningBranch(s, cr)
    ELSE IF s.conversation_phase = "Conclusion" THEN ConclusionBranch(s, cr)
    ELSE UnexpectedBranch(s)

\* the response is appended to the history
Responded(s) ==
    [s EXCEPT !.conversation_history = Append(@, AssistantEntry(s.response))]

\* The engine's state after process_message(user_input) and what the call
\* returned.  ex, qr and cr are the service's behaviour during extraction,
\* question generation (one per technology) and conclusion generation.
process_message(s, user_input, ex, qr, cr) ==
    IF _check_exit_intent(user_input)
    THEN ExitBranch(Received(s, user_input))
    ELSE Responded(Route(Extracted(Received(s, user_input),
                                   _extract_info(s.candidate_data, s.conversation_phase,
                                                 user_input, ex.svc, ex.body, s.cache)),
                         qr, cr))

----------------------------------------------------------------------------
(* HiringAssistant.get_session_summary *)

\* the summary of the engine s, without the candidate's fields and the
\* duration, which is read from the clock
get_session_summary(s) ==
    [phase |-> s.conversation_phase,
     questions_asked |-> s.current_question_index,
     total_questions |-> Len(s.questions),
     completion |-> completion_percentage(s.candidate_data),
     message_count |-> Len(s.conversation_history)]

----------------------------------------------------------------------------
(* HiringAssistant.start_chat *)

\* generate returns a text on every path, so the except branch of start_chat
\* (GreetingFallbackText) is never entered
start_chat(s, reply) ==
    LET g == generate(GreetingPrompt, TRUE, 8, reply.svc, reply.body, s.cache)
    IN  [s EXCEPT !.conversation_history = Append(@, AssistantEntry(g.text)),
                  !.cache = g.cache,
                  !.response = g.text,
                  !.calls = Called(g),
                  !.branch = "start_chat"]

----------------------------------------------------------------------------
(* The inputs: what the candidate types and what the service does *)

\* question lines a service answer may hold
MaxLines == 4

Messages ==
    { <<"john", "smith">>,
      <<"hi", "there">>,
      <<"stop">>,
      <<"john@x.com", "+491234567890", "3", "years", "python">> }

\* What the service does during one generate call: the outcomes of the
\* attempts, and the body of the answer if one succeeds.  It answers at once
\* with any of the bodies, answers `retried` at the third attempt (after a
\* rate-limit error and another error), or fails three times.
Replies(bodies, retried) ==
    {[svc |-> <<"ok">>, body |-> b] : b \in bodies}
    \cup {[svc |-> <<"rate", "err", "ok">>, body |-> retried],
          [svc |-> <<"rate", "rate", "rate">>, body |-> retried],
          [svc |-> <<"err", "err", "err">>, body |-> retried]}

\* JSON objects the service may answer an extraction prompt with
ExtractionObjects ==
    { JsonObject(<< <<"full_name", <<"Ann", "Lee">> >> >>),
      JsonObject(<< <<"email", <<"john@x.com">> >>,
                    <<"phone", <<"+491234567890">> >>,
                    <<"experience_years", <<"7">> >>,
                    <<"desired_positions", << <<"backend", "developer">> >> >>,
                    <<"location", <<"Berlin">> >>,
                    <<"tech_stack", <<"python">> >> >>) }

ExtractionBodies == {JsonSkip, JsonInvalid} \cup ExtractionObjects

ExtractionReplies == Replies(ExtractionBodies, JsonObject(<< <<"location", <<"Berlin">> >> >>))
\* an answer to a question prompt has no, three or MaxLines usable lines
QuestionReplies == Replies({0, 3, MaxLines}, 3)
TextReplies == Replies(1..MaxVariants, 1)

\* sequences of n replies
RECURSIVE ReplySeqs(_, _)
ReplySeqs(S, n) ==
    IF n = 0 THEN {<<>>} ELSE {<<r>> \o t : r \in S, t \in ReplySeqs(S, n - 1)}

----------------------------------------------------------------------------
(* The session: app.py drives one HiringAssistant *)

Engine ==
    [candidate_data |-> candidate_data,
     conversation_phase |-> conversation_phase,
     questions |-> questions,
     current_question_index |-> current_question_index,
     conversation_history |-> conversation_history,
     cache |-> cache,
     response |-> last.response,
     calls |-> last.calls,
     branch |-> last.branch]

\* the engine's variables take the values of the record s
Becomes(s) ==
    /\ candidate_data' = s.candidate_data
    /\ conversation_phase' = s.conversation_phase
    /\ questions' = s.questions
    /\ current_question_index' = s.current_question_index
    /\ conversation_history' = s.conversation_history
    /\ cache' = s.cache
    /\ last' = [response |-> s.response, calls |-> s.calls, branch |-> s.branch]

\* a HiringAssistant as constructed
FreshEngine ==
    [candidate_data |-> EmptyProfile, conversation_phase |-> "Greeting",
     questions |-> <<>>, current_question_index |-> 0,
     conversation_history |-> <<>>, cache |-> <<>>,
     response |-> [kind |-> "none"], calls |-> 0, branch |-> "none"]

\* the second session before its page is loaded
NoPeer == [engine |-> FreshEngine, initialized |-> FALSE]

\* no function is called on its own during a session
NoCall == [op |-> "none", done |-> TRUE]

\* a fresh HiringAssistant and an empty transcript
NewSession ==
    /\ candidate_data = EmptyProfile
    /\ conversation_phase = "Greeting"
    /\ questions = <<>>
    /\ current_question_index = 0
    /\ conversation_history = <<>>
    /\ cache = <<>>
    /\ messages = <<>>
    /\ initialized = FALSE
    /\ last = [response |-> [kind |-> "none"], calls |-> 0, branch |-> "none"]
    /\ peer = NoPeer

Init == NewSession /\ call = NoCall

ExitsSoFar == Cardinality({i \in 1..Len(messages) : messages[i] = [role |-> "user", content |-> "exit"]})

\* app.py, initial greeting: start_chat once per session
StartChat ==
    /\ ~initialized
    /\ \E reply \in TextReplies :
          \E s \in {start_chat(Engine, reply)} :
              /\ Becomes(s)
              /\ messages' = Append(messages, AssistantEntry(s.response))
    /\ initialized' = TRUE
    /\ UNCHANGED <<call, peer>>

\* app.py, chat input: the transcript gets the user message, process_message
\* runs, the transcript gets its response
ChatInput ==
    /\ initialized
    /\ Len(messages) < 1 + 2 * MaxMessages
    /\ \E user_input \in Messages :
        LET exit == _check_exit_intent(user_input)
            direct == /\ ~Truthy(candidate_data.full_name)
                      /\ LooksLikeName(user_input, DirectNameDenylist)
        IN
        /\ exit => ExitsSoFar < MaxExits
        /\ \E ex \in (IF exit \/ direct THEN {NoReply} ELSE ExtractionReplies) :
            LET cd == IF exit THEN candidate_data
                      ELSE _extract_info(candidate_data, conversation_phase, user_input,
                                         ex.svc, ex.body, cache).cd
                needQ == /\ ~exit /\ conversation_phase = "InfoGathering"
                         /\ is_complete(cd)
                needC == /\ ~exit
                         /\ \/ conversation_phase = "Conclusion"
                            \/ /\ conversation_phase = "Questioning"
                               /\ current_question_index >= Len(questions) - 1
                techs == Len(all_techs_of(OrElse(cd.tech_stack, <<"various", "technologies">>)))
            IN
            \E qr \in (IF needQ THEN ReplySeqs(QuestionReplies, techs) ELSE {<<>>}) :
            \E cr \in (IF needC THEN TextReplies ELSE {NoReply}) :
            \E s \in {process_message(Engine, user_input, ex, qr, cr)} :
                /\ Becomes(s)
                /\ messages' = messages \o <<UserEntry(user_input), AssistantEntry(s.response)>>
    /\ UNCHANGED <<initialized, call, peer>>

Next == StartChat \/ ChatInput

Spec == Init /\ [][Next]_vars

----------------------------------------------------------------------------
(* The session during an outage of the generation service: every attempt   *)
(* of every call fails, with a rate-limit error or another error, and the  *)
(* candidate answers what was asked with a well-formed value.              *)

\* user messages of an outage session
MaxOutageMessages == 12

FailedRuns == {[svc |-> r, body |-> 0] : r \in [1..max_retries -> {"rate", "err"}]}

\* a well-formed answer to the question for each field
WellFormed ==
    [full_name |-> <<"john", "smith">>,
     email |-> <<"john@x.com">>,
     tech_stack |-> <<"python">>,
     phone |-> <<"+491234567890">>,
     experience_years |-> <<"3", "years">>,
     desired_positions |-> <<"backend", "developer">>,
     location |-> <<"Berlin">>]

\* the field the last response asks for, "" if it asks for none
AskedField ==
    IF last.response.kind = "field_question" THEN last.response.field
    ELSE IF last.response.kind = "welcome" /\ last.response.question.kind = "field_question"
    THEN last.response.question.field
    ELSE ""

\* the greeting asks for the name; a technical question gets some answer
Answer ==
    IF conversation_phase = "Greeting" THEN WellFormed.full_name
    ELSE IF AskedField # "" THEN WellFormed[AskedField]
    ELSE <<"fine", "thanks">>

OutageStart ==
    /\ ~initialized
    /\ \E reply \in FailedRuns :
          \E s \in {start_chat(Engine, reply)} :
              /\ Becomes(s)
              /\ messages' = Append(messages, AssistantEntry(s.response))
    /\ initialized' = TRUE
    /\ UNCHANGED <<call, peer>>

\* the candidate answers until the conclusion is reached
OutageChat ==
    /\ initialized
    /\ conversation_phase # "Conclusion"
    /\ Len(messages) < 1 + 2 * MaxOutageMessages
    /\ \E ex \in (IF ~Truthy(candidate_data.full_name) /\ LooksLikeName(Answer, DirectNameDenylist)
                   THEN {NoReply} ELSE FailedRuns) :
          \E qr \in (IF /\ conversation_phase = "InfoGathering"
                         /\ is_complete(_extract_info(candidate_data, conversation_phase, Answer,
                                                      ex.svc, ex.body, cache).cd)
                      THEN FailedRuns ELSE {NoReply}) :
          \E cr \in (IF /\ conversation_phase = "Questioning"
                         /\ current_question_index >= Len(questions) - 1
                      THEN FailedRuns ELSE {NoReply}) :
          \E s \in {process_message(Engine, Answer, ex, <<qr>>, cr)} :
              /\ Becomes(s)
              /\ messages' = messages \o <<UserEntry(Answer), AssistantEntry(s.response)>>
    /\ UNCHANGED <<initialized, call, peer>>

OutageNext == OutageStart \/ OutageChat

\* the candidate keeps answering while the session goes on
OutageSpec == Init /\ [][OutageNext]_vars /\ WF_vars(OutageNext)

----------------------------------------------------------------------------
(* The intake.  The candidate answers what was asked, as above; the        *)
(* extraction call is rate-limited (the regular expressions then read the  *)
(* answer), or the service answers it with an object that corrects the     *)
(* name, or with one that has an empty e-mail address and a location.      *)

\* answered messages of one intake
MaxIntakeMessages == 8

IntakeReplies ==
    { [svc |-> <<"rate", "rate", "rate">>, body |-> JsonSkip],
      [svc |-> <<"ok">>, body |-> JsonObject(<< <<"full_name", <<"Ann", "Lee">> >> >>)],
      [svc |-> <<"ok">>,
       body |-> JsonObject(<< <<"email", <<>> >>, <<"location", <<"Berlin">> >> >>)] }

IntakeChat ==
    /\ initialized
    /\ conversation_phase # "Conclusion"
    /\ Len(messages) < 1 + 2 * MaxIntakeMessages
    /\ \E ex \in (IF ~Truthy(candidate_data.full_name) /\ LooksLikeName(Answer, DirectNameDenylist)
                   THEN {NoReply} ELSE IntakeReplies) :
          \E s \in {process_message(Engine, Answer, ex, <<[svc |-> <<"ok">>, body |-> 3]>>,
                                     [svc |-> <<"ok">>, body |-> 1])} :
              /\ Becomes(s)
              /\ messages' = messages \o <<UserEntry(Answer), AssistantEntry(s.response)>>
    /\ UNCHANGED <<initialized, call, peer>>

IntakeNext == StartChat \/ IntakeChat

Intake == Init /\ [][IntakeNext]_vars

----------------------------------------------------------------------------
(* Single calls.  A function of the program is called once, on arguments   *)
(* drawn from a bounded set: the initial state holds the arguments, the    *)
(* step applies the function and records what it returned.                 *)

session_own == <<candidate_data, conversation_phase, questions, current_question_index,
                 conversation_history, cache, messages, initialized, last>>
session == <<candidate_data, conversation_phase, questions, current_question_index,
             conversation_history, cache, messages, initialized, last, peer>>

Pending(op, args) == [op |-> op, done |-> FALSE, args |-> args, result |-> <<>>]
Returned(c, result) == [c EXCEPT !.done = TRUE, !.result = result]

\* the outcomes of the attempts one generate call can make
ServiceRuns == [1..max_retries -> Outcomes]

\* one prompt of each template
SamplePrompts ==
    { GreetingPrompt,
      ExtractionPrompt(to_dict(EmptyProfile), <<"hi", "there">>),
      QuestionPrompt("python", <<"3">>),
      ConclusionPrompt(<<"there">>, <<"python">>, 0) }

\* GeminiClient.cache: empty, holding an earlier greeting, or holding an
\* earlier answer to the extraction prompt
SampleCaches ==
    { <<>>,
      [k \in {_get_cache_key(GreetingPrompt, 8)} |-> ServiceText(GreetingPrompt, 2)],
      [k \in {_get_cache_key(ExtractionPrompt(to_dict(EmptyProfile), <<"hi", "there">>), 8)} |->
          ServiceText(ExtractionPrompt(to_dict(EmptyProfile), <<"hi", "there">>), 2)] }

GenerateCalls ==
    { Pending("generate",
              [prompt |-> p, use_cache |-> u, temperature |-> 8, svc |-> r, body |-> 1,
               cache |-> c]) :
        p \in SamplePrompts, u \in BOOLEAN, r \in ServiceRuns, c \in SampleCaches }

\* GeminiClient.generate(prompt, use_cache, temperature)
Generate ==
    /\ call.op = "generate" /\ ~call.done
    /\ call' = Returned(call, generate(call.args.prompt, call.args.use_cache,
                                       call.args.temperature, call.args.svc,
                                       call.args.body, call.args.cache))
    /\ UNCHANGED session

\* profiles an extraction may start from
NamedProfile == [EmptyProfile EXCEPT !.full_name = Some(<<"John", "Smith">>)]
SampleProfiles ==
    { EmptyProfile,
      NamedProfile,
      [NamedProfile EXCEPT !.email = Some(<<"old@x.com">>)] }

SampleInputs ==
    { <<"john@x.com">>,
      <<"john", "smith">>,
      <<"hi", "there">>,
      <<"Berlin">>,
      <<"john@x.com", "+491234567890", "3", "years", "python">> }

\* objects with a key that is no field, with a falsy value, and with a key
\* that names another attribute of CandidateInfo
MergeBodies ==
    { JsonObject(<< <<"nickname", <<"JS">> >>, <<"email", <<"john@x.com">> >> >>),
      JsonObject(<< <<"email", <<>> >>, <<"location", <<"Berlin">> >> >>),
      JsonObject(<< <<"to_dict", <<"x">> >>, <<"email", <<"john@x.com">> >> >>) }

ExtractCalls ==
    { Pending("_extract_info",
              [cd |-> cd, phase |-> ph, user_input |-> u, svc |-> r, body |-> b,
               cache |-> <<>>]) :
        cd \in SampleProfiles, ph \in {"Greeting", "InfoGathering"}, u \in SampleInputs,
        r \in ServiceRuns, b \in ExtractionBodies \cup MergeBodies \cup {JsonNonObject} }

\* HiringAssistant._extract_info(user_input)
ExtractInfo ==
    /\ call.op = "_extract_info" /\ ~call.done
    /\ call' = Returned(call, _extract_info(call.args.cd, call.args.phase,
                                            call.args.user_input, call.args.svc,
                                            call.args.body, call.args.cache))
    /\ UNCHANGED session

\* tech_stack values: one technology, several out of order, a repeated one,
\* an unknown one, separators only, and None
SampleStacks ==
    { None,
      Some(<<"python">>),
      Some(<<"react", "python">>),
      Some(<<"java", "javascript", "java">>),
      Some(<<"fooscript">>),
      Some(<<"docker", "c">>),
      Some(<<",">>),
      Some(<<";">>) }

SampleExperience == {None, Some(<<"1">>), Some(<<"7">>)}

StackOf(cd) == OrElse(cd.tech_stack, <<"various", "technologies">>)

\* the service is asked once per technology
QuestionCallsOf(cd) ==
    { Pending("_generate_technical_questions", [cd |-> cd, replies |-> qr, cache |-> <<>>]) :
        qr \in ReplySeqs(QuestionReplies, Len(all_techs_of(StackOf(cd)))) }

QuestionCalls ==
    UNION { QuestionCallsOf([NamedProfile EXCEPT !.tech_stack = ts, !.experience_years = ex]) :
                ts \in SampleStacks, ex \in SampleExperience }

\* HiringAssistant._generate_technical_questions()
GenerateQuestions ==
    /\ call.op = "_generate_technical_questions" /\ ~call.done
    /\ call' = Returned(call, _generate_technical_questions(call.args.cd, call.args.replies,
                                                            call.args.cache))
    /\ UNCHANGED session

\* the ways to draw 3 different entries from a list of n
Draws(n) == {d \in [1..3 -> 1..n] : d[1] # d[2] /\ d[1] # d[3] /\ d[2] # d[3]}

Difficulties == {"beginner", "intermediate", "advanced"}

BankCallsOf(tech_stack) ==
    { Pending("_get_enhanced_fallback_questions",
              [tech_stack |-> tech_stack, difficulty |-> df, draw |-> d]) :
        df \in Difficulties, d \in Draws(SampledSize(tech_stack)) }

\* each technology name on its own, and a list of two
BankCalls ==
    UNION { BankCallsOf(ts) :
                ts \in {<<TechOrder[i]>> : i \in 1..Len(TechOrder)} \cup {<<"sql", "react">>} }

\* HiringAssistant._get_enhanced_fallback_questions(tech_stack, difficulty)
FallbackQuestions ==
    /\ call.op = "_get_enhanced_fallback_questions" /\ ~call.done
    /\ call' = Returned(call, Sampled(_get_enhanced_fallback_questions(call.args.tech_stack,
                                                                        call.args.difficulty),
                                      call.args.draw))
    /\ UNCHANGED session

\* profiles the fallback extraction may find: nothing, the name, the
\* required fields (once with a stray leading comma in tech_stack), and the
\* optional fields one after the other
RequiredProfile ==
    [NamedProfile EXCEPT !.email = Some(<<"old@x.com">>), !.tech_stack = Some(<<"javascript">>)]
PhoneProfile ==
    [RequiredProfile EXCEPT !.phone = Some(<<"+10000000000">>),
                            !.experience_years = Some(<<"7">>)]
PositionProfile == [PhoneProfile EXCEPT !.desired_positions = Some(<< <<"tester">> >>)]
FallbackProfiles ==
    { EmptyProfile,
      NamedProfile,
      RequiredProfile,
      [RequiredProfile EXCEPT !.tech_stack = Some(<<",", "react">>)],
      PhoneProfile,
      PositionProfile,
      [PositionProfile EXCEPT !.location = Some(<<"Paris">>)] }

FallbackInputs ==
    { <<"john", "smith">>,
      <<"hi", "there">>,
      <<"john@x.com">>,
      <<"+491234567890">>,
      <<"12-34-56-78">>,
      <<"3", "years">>,
      <<"75", "years">>,
      <<"7">>,
      <<"java">>,
      <<"Java", "python">>,
      <<"backend", "developer">>,
      <<"a", "backend", "developer">>,
      <<"Berlin">>,
      <<"...">>,
      <<"i", "would", "like", "to", "work", "as", "developer">>,
      <<"john@x.com", "+491234567890", "3", "years", "python">> }

FallbackCalls ==
    { Pending("_fallback_extraction", [cd |-> cd, phase |-> ph, text |-> t]) :
        cd \in FallbackProfiles, t \in FallbackInputs,
        ph \in {"Greeting", "InfoGathering", "Questioning", "Conclusion"} }

\* HiringAssistant._fallback_extraction(text)
FallbackExtraction ==
    /\ call.op = "_fallback_extraction" /\ ~call.done
    /\ call' = Returned(call, _fallback_extraction(call.args.cd, call.args.phase,
                                                   call.args.text))
    /\ UNCHANGED session

\* tech stack strings, as their comma-separated entries
ParseInputs ==
    { <<>>,
      <<"Python", "react", "C">>,
      <<"c++">>,
      <<"c">>,
      <<"docker", "c">>,
      <<"java", "javascript", "java">>,
      <<"fooscript">>,
      <<";">> }

ParseCalls == { Pending("parse", [tech_stack_str |-> ts]) : ts \in ParseInputs }

\* TechStackParser.parse(tech_stack_str)
Parse ==
    /\ call.op = "parse" /\ ~call.done
    /\ call' = Returned(call, parse(call.args.tech_stack_str))
    /\ UNCHANGED session

\* experience strings: none, numbers, and strings float() rejects
ExperienceInputs ==
    {<<>>, <<"mid-level">>, <<"3", "years">>} \cup {<<p[1]>> : p \in ExperienceValues}

DifficultyCalls ==
    { Pending("get_difficulty_level", [tech_stack |-> ts, experience |-> e]) :
        ts \in {<<"python">>, <<"fooscript">>}, e \in ExperienceInputs }

\* TechStackParser.get_difficulty_level(tech_stack, experience)
DifficultyLevel ==
    /\ call.op = "get_difficulty_level" /\ ~call.done
    /\ call' = Returned(call, get_difficulty_level(call.args.tech_stack,
                                                   call.args.experience))
    /\ UNCHANGED session

\* messages with and without exit intent: the exit words alone, inside longer
\* words, next to punctuation and away from the start; the phrases as words
\* and inside longer words
ExitInputs ==
    { <<>>, <<"bye">>, <<"quit">>, <<"STOP">>, <<"byebye">>, <<"bye!">>, <<"bye-bye">>,
      <<"I", "need", "to", "exit", "interview", "now">>,
      <<"I", "am", "quite", "bored">>,
      <<"goodbye", "everyone">>, <<"please", "stop">>, <<"stopped">>,
      <<"(exit", "interview">>, <<"exit,", "interview">>,
      <<"exit", "the", "interview">>, <<"to", "exit", "interviews">>,
      <<"Quit", "Screening">>, <<"end", "chat">>, <<"weekend", "chat">>,
      <<"the", "end", "conversation.">>, <<"hi", "there">>, <<"john@x.com">> }

ExitCalls == { Pending("_check_exit_intent", [text |-> t]) : t \in ExitInputs }

\* HiringAssistant._check_exit_intent(text)
CheckExitIntent ==
    /\ call.op = "_check_exit_intent" /\ ~call.done
    /\ call' = Returned(call, [exit |-> _check_exit_intent(call.args.text)])
    /\ UNCHANGED session

\* the stations of one session: greeted, named, with every field but the
\* positions and the location, in Questioning at the first and at the last
\* question, and concluded
Answered1 == [svc |-> <<"ok">>, body |-> 1]
Unanswered == [svc |-> <<"rate", "rate", "rate">>, body |-> JsonSkip]
NoLines == [svc |-> <<"ok">>, body |-> 0]
FullObject ==
    JsonObject(<< <<"email", <<"john@x.com">> >>,
                  <<"phone", <<"+491234567890">> >>,
                  <<"experience_years", <<"7">> >>,
                  <<"desired_positions", << <<"backend", "developer">> >> >>,
                  <<"location", <<"Berlin">> >>,
                  <<"tech_stack", <<"python">> >> >>)

Greeted == start_chat(FreshEngine, Answered1)
Named == process_message(Greeted, <<"john", "smith">>, NoReply, <<>>, NoReply)
Gathering ==
    process_message(Named, <<"john@x.com", "+491234567890", "3", "years", "python">>,
                    Unanswered, <<>>, NoReply)
AtFirstQuestion ==
    process_message(Gathering, <<"Berlin">>, [svc |-> <<"ok">>, body |-> FullObject],
                    <<NoLines>>, NoReply)
AtSecondQuestion ==
    process_message(AtFirstQuestion, <<"fine", "thanks">>,
                    [svc |-> <<"ok">>, body |-> JsonSkip], <<>>, NoReply)
AtLastQuestion ==
    process_message(AtSecondQuestion, <<"fine", "thanks">>,
                    [svc |-> <<"ok">>, body |-> JsonSkip], <<>>, NoReply)
Concluded ==
    process_message(AtLastQuestion, <<"fine", "thanks">>,
                    [svc |-> <<"ok">>, body |-> JsonSkip], <<>>, Answered1)

SampleEngines == {Greeted, Named, Gathering, AtFirstQuestion, AtLastQuestion, Concluded}

\* messages: small talk, a technology, an exit word, a name
ProcessInputs == { <<"fine", "thanks">>, <<"react">>, <<"stop">>, <<"john", "smith">> }

\* the service during extraction: it answers "{}", an empty object, an object
\* with another experience and name, the complete object, or fails
ProcessReplies ==
    { [svc |-> <<"ok">>, body |-> JsonSkip],
      [svc |-> <<"ok">>, body |-> JsonObject(<<>>)],
      [svc |-> <<"ok">>, body |-> JsonObject(<< <<"experience_years", <<"1">> >>,
                                                <<"full_name", <<"Ann", "Lee">> >> >>)],
      [svc |-> <<"ok">>, body |-> FullObject],
      Unanswered,
      [svc |-> <<"err", "err", "err">>, body |-> JsonSkip] }

ProcessCalls ==
    { Pending("process_message",
              [s |-> s, user_input |-> u, ex |-> ex,
               qr |-> <<NoLines, NoLines, NoLines>>, cr |-> Answered1]) :
        s \in SampleEngines, u \in ProcessInputs, ex \in ProcessReplies }

\* HiringAssistant.process_message(user_input)
ProcessMessage ==
    /\ call.op = "process_message" /\ ~call.done
    /\ call' = Returned(call, process_message(call.args.s, call.args.user_input, call.args.ex,
                                              call.args.qr, call.args.cr))
    /\ UNCHANGED session

CallsInit ==
    /\ NewSession
    /\ \/ call \in GenerateCalls
       \/ call \in ExtractCalls
       \/ call \in QuestionCalls
       \/ call \in BankCalls
       \/ call \in FallbackCalls
       \/ call \in ParseCalls
       \/ call \in DifficultyCalls
       \/ call \in ExitCalls
       \/ call \in ProcessCalls

CallsNext ==
    \/ Generate
    \/ ExtractInfo
    \/ GenerateQuestions
    \/ FallbackQuestions
    \/ FallbackExtraction
    \/ Parse
    \/ DifficultyLevel
    \/ CheckExitIntent
    \/ ProcessMessage

Calls == CallsInit /\ [][CallsNext]_vars

----------------------------------------------------------------------------
(* Two browser sessions in one process.  app.py keeps one HiringAssistant  *)
(* per Streamlit session; each HiringAssistant builds its own GeminiClient *)
(* and each GeminiClient its own cache.  The steps of the two sessions     *)
(* interleave in any order.                                                *)

\* messages answered per session
MaxPairMessages == 2

PairInputs == { <<"john", "smith">>, <<"stop">> }
PairGreetings ==
    { [svc |-> <<"ok">>, body |-> 1], [svc |-> <<"ok">>, body |-> 2],
      [svc |-> <<"rate", "rate", "rate">>, body |-> 1] }
PairExtractions ==
    { [svc |-> <<"ok">>, body |-> JsonObject(<< <<"full_name", <<"Ann", "Lee">> >> >>)],
      Unanswered }

\* the cache every session's client reads and writes
ClientCache_ProcessWide(own, other) ==
    [k \in DOMAIN own \cup DOMAIN other |-> IF k \in DOMAIN other THEN other[k] ELSE own[k]]

\* the client reads the cache of the other session's client
ClientCache_OfOther(own, other) == other

\* self.gemini.cache of a session: the dict its own GeminiClient made
ClientCache(own, other) == own

\* what the extraction call of a message may do
ExtractionsFor(e, user_input) ==
    IF \/ _check_exit_intent(user_input)
       \/ ~Truthy(e.candidate_data.full_name) /\ LooksLikeName(user_input, DirectNameDenylist)
    THEN {NoReply} ELSE PairExtractions

\* the engines a session with engine e can be left with by its next step
OwnSteps(e, started) ==
    IF ~started THEN {start_chat(e, reply) : reply \in PairGreetings}
    ELSE UNION { {process_message(e, u, ex, <<NoLines, NoLines, NoLines>>, Answered1) :
                     ex \in ExtractionsFor(e, u)} : u \in PairInputs }

UserMessages(history) ==
    Cardinality({i \in 1..Len(history) : history[i].role = "user"})

\* the first session loads the page
PairStart ==
    /\ ~initialized
    /\ \E s \in OwnSteps([Engine EXCEPT !.cache = ClientCache(cache, peer.engine.cache)], FALSE) :
          /\ Becomes(s)
          /\ messages' = Append(messages, AssistantEntry(s.response))
    /\ initialized' = TRUE
    /\ UNCHANGED <<call, peer>>

\* the first session's candidate sends a message
PairChat ==
    /\ initialized
    /\ UserMessages(conversation_history) < MaxPairMessages
    /\ \E s \in OwnSteps([Engine EXCEPT !.cache = ClientCache(cache, peer.engine.cache)], TRUE) :
          /\ Becomes(s)
          /\ messages' = messages \o <<s.conversation_history[Len(conversation_history) + 1],
                                        AssistantEntry(s.response)>>
    /\ UNCHANGED <<initialized, call, peer>>

\* the second session loads the page
PeerStart ==
    /\ ~peer.initialized
    /\ \E s \in OwnSteps([peer.engine EXCEPT !.cache = ClientCache(@, cache)], FALSE) :
          peer' = [engine |-> s, initialized |-> TRUE]
    /\ UNCHANGED <<session_own, call>>

\* the second session's candidate sends a message
PeerChat ==
    /\ peer.initialized
    /\ UserMessages(peer.engine.conversation_history) < MaxPairMessages
    /\ \E s \in OwnSteps([peer.engine EXCEPT !.cache = ClientCache(@, cache)], TRUE) :
          peer' = [peer EXCEPT !.engine = s]
    /\ UNCHANGED <<session_own, call>>

PairNext == PairStart \/ PairChat \/ PeerStart \/ PeerChat

Pair == Init /\ [][PairNext]_vars


----------------------------------------------------------------------------
(* Properties of the conversation engine.  A step of ChatInput is one      *)
(* process_message call: it adds the user message and the returned         *)
(* response to the UI transcript.                                           *)

Phases == <<"Greeting", "InfoGathering", "Questioning", "Conclusion">>
PhaseRank(p) == CHOOSE i \in 1..Len(Phases) : Phases[i] = p

\* process_message ran in this step, on a message with / without exit intent
Processed == Len(messages') = Len(messages) + 2
ExitGiven == Processed /\ messages'[Len(messages) + 1].content = "exit"
NonExitGiven == Processed /\ messages'[Len(messages) + 1].content = "text"

\* every field of the list fs is populated in cd
Populated(cd, fs) == \A i \in 1..Len(fs) : Truthy(cd[fs[i]])
\* the first field of fs that is not populated in cd
FirstUnset(cd, fs) == fs[CHOOSE i \in 1..Len(fs) : ~Truthy(cd[fs[i]]) /\ Populated(cd, SubSeq(fs, 1, i - 1))]

\* a closing message: the early-exit text, the service's answer to the
\* conclusion prompt, or the client's own thank-you text
IsConclusion(text) ==
    \/ text.kind = "early_conclusion"
    \/ text.kind = "fallback_conclusion"
    \/ text.kind = "service" /\ text.prompt.kind = "conclusion"
IsQuestion(text) == text.kind \in {"field_question", "anything_else", "welcome", "intro", "question"}

\* the transcript shows an assistant text of this kind
Said(kind) ==
    \E i \in 1..Len(messages) : messages[i].role = "assistant" /\ messages[i].content.kind = kind

\* C1: conversation_phase is always one of the four phases and changes only
\* from a phase to the next one in the order Greeting, InfoGathering,
\* Questioning, Conclusion (never backward, never skipping a phase), and
\* process_message never takes its unexpected-phase branch.
C1_PhaseOrder ==
    [][/\ conversation_phase \in Range(Phases)
       /\ conversation_phase' \in Range(Phases)
       /\ PhaseRank(conversation_phase') - PhaseRank(conversation_phase) \in {0, 1}
       /\ last'.branch # "unexpected"]_vars

\* the session went through all four phases
C1_Witness ==
    /\ conversation_phase = "Conclusion"
    /\ last.branch = "Questioning"
    /\ Said("welcome")


\* C2: a non-exit message processed in InfoGathering moves the session to
\* Questioning, with a question list, index 0 and the intro plus Question 1
\* as response, if and only if all seven profile fields are populated after
\* the extraction of that message; otherwise the phase stays InfoGathering
\* and the response is the question for the first missing field.
C2_InfoGatheringStep ==
    [][(NonExitGiven /\ conversation_phase = "InfoGathering") =>
         IF Populated(candidate_data', AllFields)
         THEN /\ conversation_phase' = "Questioning"
              /\ questions' # <<>>
              /\ current_question_index' = 0
              /\ last'.response.kind = "intro"
              /\ last'.response.total = Len(questions')
              /\ last'.response.number = 1
              /\ last'.response.question = questions'[1]
         ELSE /\ conversation_phase' = "InfoGathering"
              /\ questions' = questions
              /\ last'.response =
                    FieldQuestion(IF Populated(candidate_data', RequiredFields)
                                  THEN FirstUnset(candidate_data', OptionalFields)
                                  ELSE FirstUnset(candidate_data', RequiredFields))]_vars

\* the completing message was just processed: Questioning entered from
\* InfoGathering with the intro as response
C2_Witness ==
    /\ conversation_phase = "Questioning"
    /\ last.branch = "InfoGathering"
    /\ last.response.kind = "intro"
    /\ Populated(candidate_data, AllFields)

\* C3 as stated: in InfoGathering the engine moves to Questioning exactly
\* when the three required fields are present, optional fields unset or not.
C3_RequiredFieldsSuffice ==
    [][(NonExitGiven /\ conversation_phase = "InfoGathering") =>
         (conversation_phase' = "Questioning" <=> Populated(candidate_data', RequiredFields))]_vars

\* C3, amended: with the three required fields present and an optional
\* field still unset, a non-exit message leaves the phase InfoGathering and
\* is answered with the question for the first unset optional field (phone,
\* experience_years, desired_positions, location, in this order); the
\* required fields alone never start the questions.
C3_OptionalFieldsRequired ==
    [][(/\ NonExitGiven
        /\ conversation_phase = "InfoGathering"
        /\ Populated(candidate_data', RequiredFields)
        /\ ~Populated(candidate_data', OptionalFields)) =>
         /\ conversation_phase' = "InfoGathering"
         /\ current_question_index' = current_question_index
         /\ questions' = questions
         /\ last'.response = FieldQuestion(FirstUnset(candidate_data', OptionalFields))]_vars

\* name, e-mail and tech stack are known, an optional field is not, and the
\* engine has just asked for it instead of starting the questions
C3_Witness ==
    /\ conversation_phase = "InfoGathering"
    /\ last.branch = "InfoGathering"
    /\ Populated(candidate_data, RequiredFields)
    /\ ~Populated(candidate_data, OptionalFields)
    /\ last.response.kind = "field_question"
    /\ last.response.field \in Range(OptionalFields)


\* C4 as stated: in every phase, processing a message with exit intent
\* leaves conversation_phase at Conclusion.
C4_ExitReachesConclusion ==
    [][ExitGiven => conversation_phase' = "Conclusion"]_vars

\* transcript position i holds an exit message received in Questioning
\* while questions remained: the assistant text before it is the intro or a
\* question other than the last one
ExitWhileQuestionsRemain(i) ==
    /\ i > 1
    /\ messages[i] = [role |-> "user", content |-> "exit"]
    /\ messages[i - 1].content.kind \in {"intro", "question"}
    /\ messages[i - 1].content.number < Len(questions)

\* C5 as stated: an exit message received in Questioning while questions
\* remain is answered with the early conclusion, leaves the index where it
\* was, and no later response is a further "Question N".
C5_NoQuestionAfterExit ==
    \A i \in 1..Len(messages) :
        ExitWhileQuestionsRemain(i) =>
            /\ messages[i + 1].content.kind = "early_conclusion"
            /\ current_question_index = messages[i - 1].content.number - 1
            /\ \A j \in (i + 2)..Len(messages) :
                  messages[j].role = "assistant" => messages[j].content.kind # "question"

\* C6: processing a message with exit intent calls the generation service
\* neither for extraction nor for the conclusion (the cache stays as it
\* was, too), leaves the profile, the question list and the index
\* unchanged, and returns the early-conclusion text built from full_name
\* (or "there") alone, so the same name gives the same text every time.
C6_ExitIsPure ==
    [][ExitGiven =>
         /\ last'.calls = 0
         /\ cache' = cache
         /\ candidate_data' = candidate_data
         /\ questions' = questions
         /\ current_question_index' = current_question_index
         /\ last'.response = EarlyConclusionText(OrElse(candidate_data.full_name, <<"there">>))]_vars

\* a second exit message was just processed, with questions pending and a
\* name on file
C6_Witness ==
    /\ last.branch = "exit"
    /\ ExitsSoFar = 2
    /\ conversation_phase = "Questioning"
    /\ Truthy(candidate_data.full_name)

\* the technical questions the transcript shows are Question 1 .. Question n
\* in this order, each once
EmittedInOrder(n) ==
    LET shown == SelectSeq(messages, LAMBDA m : m.role = "assistant"
                                              /\ m.content.kind \in {"intro", "question"})
    IN  /\ Len(shown) = n
        /\ \A k \in 1..n : shown[k].content.number = k

\* C7 as stated: in Questioning a non-exit message either moves the index
\* on by one and emits that question as "Question index+1", or at the last
\* index moves to Conclusion and emits the conclusion; every question is
\* emitted once, in list order, and Conclusion comes after len(questions)
\* such messages.
C7_QuestioningStep ==
    [][(NonExitGiven /\ conversation_phase = "Questioning") =>
         /\ IF current_question_index < Len(questions) - 1
            THEN /\ current_question_index' = current_question_index + 1
                 /\ conversation_phase' = "Questioning"
                 /\ last'.response = NextQuestionText(current_question_index' + 1,
                                                      questions[current_question_index' + 1])
            ELSE /\ conversation_phase' = "Conclusion"
                 /\ current_question_index' = current_question_index
                 /\ IsConclusion(last'.response)
         /\ questions' = questions
         /\ EmittedInOrder(current_question_index + 1)']_vars

\* C8 as stated: once the phase is Conclusion every further message leaves
\* the phase, the question list and the index as they are and is answered
\* with a conclusion message, never with a field or technical question.
C8_ConclusionAbsorbing ==
    [][(Processed /\ conversation_phase = "Conclusion") =>
         /\ conversation_phase' = "Conclusion"
         /\ questions' = questions
         /\ current_question_index' = current_question_index
         /\ IsConclusion(last'.response)
         /\ ~IsQuestion(last'.response)]_vars

\* two texts are equivalent conclusions: the same text, or two closing
\* messages
Equivalent(a, b) == a = b \/ (IsConclusion(a) /\ IsConclusion(b))

\* C9 as stated: two consecutive non-early conclusion calls made in the
\* Conclusion phase for the same name, tech stack and completion return
\* equivalent texts, whatever the service does.
C9_ConclusionIdempotent ==
    [][(/\ NonExitGiven
        /\ conversation_phase = "Conclusion"
        /\ last.branch \in {"Questioning", "Conclusion"}
        /\ candidate_data'.full_name = candidate_data.full_name
        /\ candidate_data'.tech_stack = candidate_data.tech_stack
        /\ completion_percentage(candidate_data') = completion_percentage(candidate_data)) =>
         Equivalent(last.response, last'.response)]_vars

\* C10 as stated: every process_message call appends the user message and
\* the response it returns, so the history alternates roles after the
\* greeting, has 1 + 2n entries after n messages, and is the transcript the
\* UI keeps.
C10_HistoryIsTranscript ==
    /\ conversation_history = messages
    /\ \A i \in 1..Len(conversation_history) :
          conversation_history[i].role = (IF i % 2 = 1 THEN "assistant" ELSE "user")

----------------------------------------------------------------------------
(* Properties of GeminiClient.generate, one call at a time *)

Generated == call.op = "generate" /\ call.done /\ call.result.attempts > 0

\* the first i - 1 attempts hit the rate limit
RateLimitedBefore(i) == \A j \in 1..(i - 1) : call.args.svc[j] = "rate"

\* C13: in generate only rate-limit errors are retried: when an attempt fails
\* with another error, generate falls back at once, with no further attempt
\* and no sleep after it.
C13_OnlyRateLimitRetried ==
    Generated =>
        \A i \in 1..max_retries :
            (RateLimitedBefore(i) /\ call.args.svc[i] = "err") =>
                /\ call.result.attempts = i
                /\ Len(call.result.sleeps) = i - 1
                /\ call.result.text = GeminiFallbackResponse(call.args.prompt)

\* C14: a generate call makes at most 3 attempts; while the errors are
\* rate-limit errors it sleeps 1 second after the first failed attempt and
\* 2 seconds after the second, and not after the third.
C14_RateLimitBackoff ==
    (call.op = "generate" /\ call.done) =>
        /\ call.result.attempts <= 3
        /\ Len(call.result.sleeps) < 3
        /\ \A n \in 1..3 :
              (Generated /\ RateLimitedBefore(n + 1) /\ (n = 3 \/ call.args.svc[n + 1] = "ok")) =>
                  /\ call.result.attempts = Min(n + 1, 3)
                  /\ call.result.sleeps = SubSeq(<<1, 2>>, 1, Min(n, 2))

C14_Witness ==
    /\ Generated
    /\ RateLimitedBefore(4)
    /\ call.result.attempts = 3
    /\ call.result.sleeps = <<1, 2>>
    /\ call.result.text = HighDemandText

----------------------------------------------------------------------------
(* Properties of _extract_info, one call at a time *)

\* the text generate returned to the extraction of the call
ExtractionText ==
    generate(ExtractionPrompt(call.args.cd, call.args.user_input), FALSE, 1,
             call.args.svc, call.args.body, call.args.cache).text

\* the call failed on all attempts, or its output is no JSON object
ExtractionFailed ==
    \/ ExtractionText.kind # "service"
    \/ ParseJson(ExtractionText).json \in {"invalid", "non_object"}

\* C16: whenever model-assisted extraction fails (every attempt of the call
\* fails, or the output is no JSON object) the profile afterwards is the one
\* fallback extraction gives on the same message; an email address in the
\* text is captured when email is unset.
C16_FailedExtractionFallsBack ==
    (/\ call.op = "_extract_info" /\ call.done
     /\ call.result.path # "direct"
     /\ ExtractionFailed) =>
        /\ call.result.cd = _fallback_extraction(call.args.cd, call.args.phase,
                                                 call.args.user_input)
        /\ ((\E i \in 1..Len(call.args.user_input) : IsEmail(call.args.user_input[i]))
                => Truthy(call.result.cd.email))

----------------------------------------------------------------------------
(* Properties of _generate_technical_questions, one call at a time *)

QuestionsGenerated == call.op = "_generate_technical_questions" /\ call.done

\* the technologies of the call, sorted, and the experience string
CallTechs == all_techs_of(StackOf(call.args.cd))
CallExperience == OrElse(call.args.cd.experience_years, <<"mid-level">>)

\* the text generate returned for the i-th technology
QuestionText(i) ==
    generate(QuestionPrompt(CallTechs[i], CallExperience), FALSE, 7,
             call.args.replies[i].svc, call.args.replies[i].body, call.args.cache).text

\* the questions recorded for the i-th technology
Block(i) == SubSeq(call.result.questions, 3 * i - 2, 3 * i)

\* the call for the i-th technology failed, or fewer than 3 questions were
\* in its answer
NeedsFallback(i) ==
    \/ QuestionText(i).kind # "service"
    \/ QuestionText(i).body < 3

\* C17: for each technology, if the generation call fails or fewer than 3
\* valid questions are parsed from its answer, the 3 questions recorded for
\* the technology are those of the fallback question bank for that technology
\* at the difficulty computed from experience_years.
C17_FailedCallUsesBank ==
    QuestionsGenerated =>
        \A i \in 1..Len(CallTechs) :
            NeedsFallback(i) =>
                Block(i) = _get_enhanced_fallback_questions(
                               <<CallTechs[i]>>,
                               get_difficulty_level(CallTechs[i], CallExperience))

\* the distinct technology names: those TechStackParser.parse finds in the
\* stack, or the pieces between commas when it finds none
ParsedTechs ==
    UNION {parse(StackOf(call.args.cd))[c] : c \in DOMAIN parse(StackOf(call.args.cd))}
DistinctTechs ==
    IF ParsedTechs # {} THEN ParsedTechs ELSE Range(StackOf(call.args.cd)) \ {","}

TechRank(t) == CHOOSE i \in 1..Len(TechOrder) : TechOrder[i] = t

\* C18: the question list holds exactly 3 questions per distinct technology,
\* the technologies in alphabetical order and each technology's questions in
\* generation order; 3 questions when there is no technology; the intro
\* states the total.
C18_ThreePerTechnology ==
    QuestionsGenerated =>
        /\ call.result.response.kind = "intro"
        /\ call.result.response.total = Len(call.result.questions)
        /\ call.result.current_question_index = 0
        /\ IF CallTechs = <<>>
           THEN Len(call.result.questions) = 3
           ELSE /\ Len(call.result.questions) = 3 * Cardinality(DistinctTechs)
                /\ Range(CallTechs) = DistinctTechs
                /\ \A i \in 1..Len(CallTechs) :
                      /\ \A k \in 1..3 : Block(i)[k].tech = <<CallTechs[i]>>
                      /\ \A k \in 1..2 : Block(i)[k].k < Block(i)[k + 1].k
                      /\ i > 1 => TechRank(CallTechs[i - 1]) < TechRank(CallTechs[i])

C18_Witness ==
    /\ QuestionsGenerated
    /\ call.args.cd.tech_stack = Some(<<"react", "python">>)
    /\ Len(call.result.questions) = 6
    /\ call.result.questions[1].tech = <<"python">>
    /\ call.result.questions[1].src = "service"
    /\ call.args.replies[1].body = MaxLines
    /\ call.result.questions[4].src = "bank"

----------------------------------------------------------------------------
(* Properties of the fallback question bank, one call at a time *)

BankAsked == call.op = "_get_enhanced_fallback_questions" /\ call.done

\* the returned question has a question mark
HasQuestionMark(r) == r.entry \notin Statements(r.question.pool, r.question.tier)

\* C19: for any technology string and any difficulty the bank returns
\* exactly 3 strings, each non-empty and each holding a question mark.
C19_ThreeQuestionMarks ==
    BankAsked =>
        /\ Len(call.result) = 3
        /\ \A k \in 1..3 : HasQuestionMark(call.result[k])

\* C20: for a technology whose name is no key or alias of the bank the 3
\* questions are distinct generic templates filled with that name; pool
\* questions are returned only for the technology of the pool.
C20_UnknownTechnologyGetsTemplates ==
    (BankAsked /\ Len(call.args.tech_stack) = 1
               /\ call.args.tech_stack[1] \notin Range(FallbackKeys)) =>
        \A k \in 1..3 :
            /\ call.result[k].question.src = "generic"
            /\ call.result[k].question.tech = call.args.tech_stack
            /\ \A j \in 1..3 : j # k => call.result[j].entry # call.result[k].entry

----------------------------------------------------------------------------
(* Properties of the session under service failures *)

\* C15: the only failure text of the generation client that reaches the
\* user is the "I'm having trouble processing your request" message; no
\* other failure notice of the client is shown as if it were generated.
C15_OnlyTroubleTextShown ==
    \A i \in 1..Len(messages) :
        messages[i].role = "assistant" => messages[i].content.kind # "high_demand"

\* the texts start_chat and process_message return
ResponseKinds ==
    {"service", "high_demand", "trouble", "fallback_conclusion", "fallback_generic",
     "greeting_fallback", "welcome", "field_question", "anything_else", "intro",
     "question", "early_conclusion", "unexpected_phase"}

\* the engine can process a message: its phase is one of the four, its
\* profile has the seven fields, and in Questioning the index points at a
\* question
ValidEngine ==
    /\ conversation_phase \in Range(Phases)
    /\ DOMAIN candidate_data = FieldNames
    /\ conversation_phase = "Questioning" =>
           current_question_index \in 0..(Len(questions) - 1)
    /\ conversation_phase = "Conclusion" => questions # <<>>

\* every attempt of a call fails
Outage == [svc |-> <<"err", "rate", "err">>, body |-> 0]

\* C12: a failure of the generation service is never fatal: whatever the
\* service does, start_chat and process_message return a response text and
\* leave the engine in a state in which the next message can be processed.
C12_FailureNeverFatal ==
    initialized =>
        /\ last.response.kind \in ResponseKinds
        /\ ValidEngine
        /\ \A user_input \in Messages :
              process_message(Engine, user_input, Outage, <<Outage, Outage>>, Outage).response.kind
                  \in ResponseKinds

\* the greeting call, the question call and the conclusion call all failed
C12_Witness ==
    /\ conversation_phase = "Conclusion"
    /\ last.response.kind = "fallback_conclusion"
    /\ questions[1].src \in {"template", "bank"}
    /\ messages[1].content.kind \in {"high_demand", "fallback_generic"}

\* what decides how the next message is handled
Progress == <<conversation_phase, candidate_data, questions, current_question_index, cache>>

\* C11: availability under a service outage: if every call of the generation
\* service fails, whatever the error, and the candidate answers each field
\* question with a well-formed value, the session does not get stuck: it
\* leaves InfoGathering, asks its questions and reaches Conclusion.  So no
\* well-formed answer leaves the session where it was: from there the same
\* answer and the same failures repeat for ever.
C11_OutageNeverStuck ==
    [][initialized /\ conversation_phase # "Conclusion" => Progress' # Progress]_vars

----------------------------------------------------------------------------
(* Properties of information extraction, on single calls of _extract_info  *)
(* and _fallback_extraction.                                               *)

ExtractionDone == call.op = "_extract_info" /\ call.done

\* 1 to 3 purely alphabetic words of length >= 2
PlainWords(text) ==
    /\ Len(text) \in 1..3
    /\ \A i \in 1..Len(text) : (\E p \in WordForms : p[1] = Lower(text[i])) /\ Len(text[i]) >= 2

Greets(text) == \E i \in 1..Len(text) : Lower(text[i]) \in {"hi", "hello", "hey"}

\* the words with a capital first letter and the rest in lower case
TitleCased(text) ==
    [i \in 1..Len(text) |-> (CHOOSE p \in WordForms : p[1] = Lower(text[i]))[2]]

ParsedObject == ParseJson(ExtractionText)

ModelAnswered ==
    /\ ExtractionDone
    /\ call.result.path # "direct"
    /\ ExtractionText.kind = "service"
    /\ ParsedObject.json = "object"

\* the truthy values the object returns for field f
ReturnedFor(f) ==
    {ParsedObject.items[i][2] : i \in {j \in 1..Len(ParsedObject.items) :
                                          /\ ParsedObject.items[j][1] = f
                                          /\ ParsedObject.items[j][2] # <<>>}}

\* C22: the merge of a parsed JSON object.  Every field of the profile
\* returned with a truthy value takes that value, every field returned falsy
\* or not returned keeps its value, and any other key is ignored: it changes
\* nothing, the remaining keys are still merged and fallback extraction is
\* not run.
C22_MergeAllowListed ==
    ModelAnswered =>
        /\ \A f \in FieldNames :
              IF ReturnedFor(f) # {}
              THEN call.result.cd[f] \in {Some(v) : v \in ReturnedFor(f)}
              ELSE call.result.cd[f] = call.args.cd[f]
        /\ call.result.path = "model"

FallbackDone == call.op = "_fallback_extraction" /\ call.done

\* the fields other than tech_stack
PlainFields == FieldNames \ {"tech_stack"}

IsPrefix(a, b) == Len(a) <= Len(b) /\ SubSeq(b, 1, Len(a)) = a

\* C23: fallback extraction never overwrites a field that is set: each of
\* full_name, email, phone, experience_years, desired_positions and location
\* that was populated before the call has the same value after it, and
\* tech_stack still begins with its previous value.
C23_FallbackNeverOverwrites ==
    FallbackDone =>
        /\ \A f \in PlainFields :
              Truthy(call.args.cd[f]) => call.result[f] = call.args.cd[f]
        /\ Truthy(call.args.cd.tech_stack)
              => IsPrefix(Val(call.args.cd.tech_stack), Val(call.result.tech_stack))

\* a comma-joined value without the bare commas it starts with
RECURSIVE WithoutLeadingCommas(_)
WithoutLeadingCommas(s) ==
    IF s # <<>> /\ Head(s) = "," THEN WithoutLeadingCommas(Tail(s)) ELSE s

\* C23, amended: the six plain fields keep their value, and tech_stack is
\* either unchanged or begins with its previous value less the commas and
\* spaces that value started with.
C23_FallbackKeepsSetFields ==
    FallbackDone =>
        /\ \A f \in PlainFields :
              Truthy(call.args.cd[f]) => call.result[f] = call.args.cd[f]
        /\ Truthy(call.args.cd.tech_stack)
              => \/ call.result.tech_stack = call.args.cd.tech_stack
                 \/ IsPrefix(WithoutLeadingCommas(Val(call.args.cd.tech_stack)),
                             Val(call.result.tech_stack))

\* a message with an e-mail address and a new keyword meets a profile that
\* has both fields set
C23_Witness ==
    /\ FallbackDone
    /\ call.args.cd = RequiredProfile
    /\ \E i \in 1..Len(call.args.text) : IsEmail(call.args.text[i])
    /\ call.result.email = Some(<<"old@x.com">>)
    /\ call.result.tech_stack = Some(<<"javascript", "python">>)

\* the call went past the name step to the keyword scan
KeywordsScanned == FallbackDone /\ call.result.full_name = call.args.cd.full_name

PreviousStack == OrElse(call.args.cd.tech_stack, <<>>)
ResultStack == OrElse(call.result.tech_stack, <<>>)

Occurrences(t, stack) == Cardinality({i \in 1..Len(stack) : stack[i] = t})

\* C24: a technology keyword found in the message is appended to tech_stack
\* if and only if no entry of the existing tech_stack equals it, ignoring
\* case; so 'java' is appended to a tech_stack of 'javascript'.
C24_AppendedUnlessEqualEntry ==
    KeywordsScanned =>
        \A t \in Range(tech_keywords) :
            KeywordInText(t, call.args.text) =>
                (Occurrences(t, ResultStack) > Occurrences(t, PreviousStack)
                    <=> \A i \in 1..Len(PreviousStack) : Lower(PreviousStack[i]) # t)

GuessedFields == {"desired_positions", "location"}

\* the call assigned field f
Assigned(f) == FallbackDone /\ call.result[f] # call.args.cd[f]

\* the message is digits only, or holds digits followed by year(s) or yr(s)
NumericOrYears(text) ==
    \/ Len(text) = 1 /\ text[1] \in DigitTokens
    \/ \E i \in 1..(Len(text) - 1) : text[i] \in DigitTokens /\ Lower(text[i + 1]) \in YearTokens

\* C25: the context-aware guess assigns desired_positions or location only
\* in the InfoGathering phase, when no e-mail address, phone number,
\* experience or technology was extracted in the same pass, when the field
\* is the first missing field, and when the message has at most 6 tokens and
\* is neither a number nor an experience phrase.  So no field is guessed
\* while a required field is missing, nor in another phase.
C25_GuessOnlyInContext ==
    \A f \in GuessedFields :
        Assigned(f) =>
            /\ call.args.phase = "InfoGathering"
            /\ \A g \in {"email", "phone", "experience_years", "tech_stack"} :
                  call.result[g] = call.args.cd[g]
            /\ f = FirstUnset(call.args.cd, RequiredFields \o OptionalFields)
            /\ \A i \in 1..Len(RequiredFields) : Truthy(call.args.cd[RequiredFields[i]])
            /\ Len(call.args.text) <= 6
            /\ ~NumericOrYears(call.args.text)

C25_Witness ==
    /\ Assigned("desired_positions")
    /\ call.args.cd = PhoneProfile
    /\ call.args.text = <<"a", "backend", "developer">>
    /\ call.result.desired_positions = Some(<< <<"backend", "developer">> >>)
    /\ call.result.location = None

\* the value the call stored into field f
Stored(f) == Val(call.result[f])

\* C26: the Validator predicates are acceptance gates of fallback
\* extraction: every value it stores into full_name, email, phone or
\* experience_years satisfies validate_name, validate_email, validate_phone
\* (at least 10 digits) or validate_experience (a number from 0 to 50).
C26_StoredValuesValidated ==
    /\ Assigned("full_name") => validate_name(Stored("full_name"))
    /\ Assigned("email") => validate_email(Stored("email"))
    /\ Assigned("phone") => validate_phone(Stored("phone"))
    /\ Assigned("experience_years") => validate_experience(Stored("experience_years"))

----------------------------------------------------------------------------
(* Properties of the profile during the intake *)

\* the fields that hold a value
Held(cd) == {f \in FieldNames : cd[f] # None}

\* C27: over the process_message calls of a session no populated field of
\* the profile becomes unset again, so completion_percentage() never
\* decreases and never exceeds 100; a profile with exactly full_name, email
\* and tech_stack set has 45.
C27_CompletionMonotone ==
    [][/\ \A f \in FieldNames :
            /\ Truthy(candidate_data[f]) => Truthy(candidate_data'[f])
            /\ candidate_data[f] # None => candidate_data'[f] # None
       /\ completion_percentage(candidate_data') >= completion_percentage(candidate_data)
       /\ completion_percentage(candidate_data') <= 100
       /\ Held(candidate_data') = {"full_name", "email", "tech_stack"}
             => completion_percentage(candidate_data') = 45]_vars

\* the name, the e-mail address and the tech stack were given, in three
\* messages after the greeting
C27_Witness ==
    /\ Held(candidate_data) = {"full_name", "email", "tech_stack"}
    /\ completion_percentage(candidate_data) = 45
    /\ last.branch = "InfoGathering"
    /\ Len(messages) >= 7

\* the fields of fs that are not populated, in the order of fs
Unpopulated(fs) == Keep(fs, {f \in Range(fs) : ~Truthy(candidate_data[f])})

\* C28: missing_fields() returns the unpopulated required fields in the
\* order full_name, email, tech_stack and nothing else while one of them is
\* unpopulated, and after that the unpopulated optional fields in the order
\* phone, experience_years, desired_positions, location.  The field question
\* of a Greeting or InfoGathering response is the one for the first element
\* of that list.
C28_MissingFieldsOrder ==
    /\ missing_fields(candidate_data) =
          IF Unpopulated(<<"full_name", "email", "tech_stack">>) # <<>>
          THEN Unpopulated(<<"full_name", "email", "tech_stack">>)
          ELSE Unpopulated(<<"phone", "experience_years", "desired_positions", "location">>)
    /\ (last.branch \in {"Greeting", "InfoGathering"} /\ AskedField # "")
          => AskedField = Head(missing_fields(candidate_data))

\* the required fields and the location are in, the other optional fields
\* are asked for in order
C28_Witness ==
    /\ last.branch = "InfoGathering"
    /\ missing_fields(candidate_data) = <<"phone", "experience_years", "desired_positions">>
    /\ Truthy(candidate_data.location)
    /\ AskedField = "phone"

----------------------------------------------------------------------------
(* Properties of TechStackParser, one call at a time *)

ParseDone == call.op = "parse" /\ call.done

\* the categories the result puts token t in
CategoriesOf(t) == {cat \in Range(CategoryNames) : t \in call.result[cat]}

\* C29: parse puts a token in a category through a keyword of length <= 2
\* only when the two are equal, and a short token matches no longer keyword
\* as a substring: of 'Python, react, C' the token 'c' is in languages only,
\* and 'c++' stays the token 'c++'.
C29_ShortTokensMatchExactly ==
    ParseDone =>
        /\ \A cat \in Range(CategoryNames) :
              \A t \in call.result[cat] : Len(t) <= 2 => t \in Range(CATEGORIES[cat])
        /\ call.args.tech_stack_str = <<"Python", "react", "C">>
              => /\ CategoriesOf("python") = {"languages"}
                 /\ CategoriesOf("react") = {"frontend"}
                 /\ CategoriesOf("c") = {"languages"}
        /\ call.args.tech_stack_str = <<"c++">>
              => CategoriesOf("c++") = {"languages"} /\ CategoriesOf("c") = {}

DifficultyDone == call.op = "get_difficulty_level" /\ call.done

\* the years an experience string states, as a set: empty when the string
\* is absent or no number
YearsOf(experience) ==
    {p[2] : p \in {q \in ExperienceValues : experience = <<q[1]>>}}

\* C30: get_difficulty_level gives beginner for less than 2 years,
\* intermediate for 2 up to less than 5, advanced for 5 or more, and
\* intermediate for an experience that is absent (None or empty) or is no
\* number.
C30_DifficultyTiers ==
    DifficultyDone =>
        /\ YearsOf(call.args.experience) = {} => call.result = "intermediate"
        /\ \A years \in YearsOf(call.args.experience) :
              call.result = IF years < 2 THEN "beginner"
                            ELSE IF years < 5 THEN "intermediate"
                            ELSE "advanced"

----------------------------------------------------------------------------
(* Exit intent *)

ExitChecked == call.op = "_check_exit_intent" /\ call.done

\* the message as lower-case runs of word characters; "" stands for the white
\* space and punctuation between two runs that are not joined by white
\* space alone
RECURSIVE WordsOf(_)
WordsOf(text) ==
    IF text = <<>> THEN <<>>
    ELSE LET w == Lower(Head(text))
             inner == WordRuns(w)
             spaced == [i \in 1..(2 * Len(inner) - 1) |->
                           IF i % 2 = 1 THEN inner[(i + 1) \div 2] ELSE ""]
         IN  (IF StartsWord(w) THEN <<>> ELSE <<"">>) \o spaced
             \o (IF EndsWord(w) THEN <<>> ELSE <<"">>) \o WordsOf(Tail(text))

StartsWithExitWord(text) ==
    WordsOf(text) # <<>> /\ WordsOf(text)[1] \in {"bye", "goodbye", "stop", "exit", "quit"}

ContainsExitPhrase(text) ==
    \E i \in 1..(Len(WordsOf(text)) - 1) :
        <<WordsOf(text)[i], WordsOf(text)[i + 1]>> \in
            { <<"exit", "interview">>, <<"quit", "screening">>,
              <<"end", "chat">>, <<"end", "conversation">> }

\* C34: _check_exit_intent returns true exactly when the lower-cased, trimmed
\* message starts with one of the words bye, goodbye, stop, exit, quit followed
\* by a word boundary, or contains one of the phrases 'exit interview', 'quit
\* screening', 'end chat', 'end conversation' as whole words; 'bye', 'quit',
\* 'STOP' and 'I need to exit interview now' are exits, 'I am quite bored'
\* and 'byebye' are not.
C34_ExitIntentExact ==
    ExitChecked =>
        /\ call.result.exit
              <=> (StartsWithExitWord(call.args.text) \/ ContainsExitPhrase(call.args.text))
        /\ call.args.text \in { <<"bye">>, <<"quit">>, <<"STOP">>,
                                <<"I", "need", "to", "exit", "interview", "now">> }
              => call.result.exit
        /\ call.args.text \in { <<"I", "am", "quite", "bored">>, <<"byebye">> }
              => ~call.result.exit

\* the phrase in the middle of a longer message is found
C34_Witness ==
    /\ ExitChecked
    /\ call.args.text = <<"I", "need", "to", "exit", "interview", "now">>
    /\ call.result.exit

----------------------------------------------------------------------------
(* The response cache, one call at a time *)

GenerateReturned == call.op = "generate" /\ call.done

CacheKey == _get_cache_key(call.args.prompt, call.args.temperature)

\* the call got an answer from the service at its last attempt
Answered ==
    /\ call.result.attempts > 0
    /\ call.args.svc[call.result.attempts] = "ok"

\* C32: a cache entry, once written, is never overwritten or removed; an entry
\* is written only under the key of the call's prompt and temperature and
\* holds the text a successful service call returned, never a failure or
\* fallback text; a call with use_cache = False (as extraction and question
\* generation make) asks the service whatever the cache holds and leaves the
\* cache as it was.
C32_CacheIntegrity ==
    /\ GenerateReturned =>
          /\ \A k \in DOMAIN call.args.cache :
                k \in DOMAIN call.result.cache /\ call.result.cache[k] = call.args.cache[k]
          /\ \A k \in DOMAIN call.result.cache \ DOMAIN call.args.cache :
                /\ k = CacheKey
                /\ call.args.use_cache
                /\ Answered
                /\ call.result.cache[k] = ServiceText(call.args.prompt, call.args.body)
                /\ call.result.cache[k] = call.result.text
          /\ ~call.args.use_cache =>
                /\ call.result.cache = call.args.cache
                /\ call.result.attempts > 0
    /\ (call.op = "_extract_info" /\ call.done) => call.result.cache = call.args.cache

\* a second prompt is answered and cached next to the greeting, which stays
C32_Witness ==
    /\ GenerateReturned
    /\ call.args.use_cache
    /\ call.args.cache # <<>>
    /\ CacheKey \notin DOMAIN call.args.cache
    /\ DOMAIN call.result.cache = DOMAIN call.args.cache \cup {CacheKey}

----------------------------------------------------------------------------
(* process_message, one call at a time *)

ProcessDone == call.op = "process_message" /\ call.done
Before == call.args.s
After == call.result
NonExitMessage == ~_check_exit_intent(call.args.user_input)

\* what _extract_info does on the call's message, profile and phase
ExtractionOf ==
    _extract_info(Before.candidate_data, Before.conversation_phase, call.args.user_input,
                  call.args.ex.svc, call.args.ex.body, Before.cache)

\* the message is not taken as a name, and the service answers "{}" or an
\* empty object, or fails with errors so that generate returns "{}"
FindsNothing ==
    /\ Truthy(Before.candidate_data.full_name)
          \/ ~LooksLikeName(call.args.user_input, DirectNameDenylist)
    /\ \/ call.args.ex.svc = <<"ok">> /\ call.args.ex.body \in {JsonSkip, JsonObject(<<>>)}
       \/ call.args.ex.svc = <<"err", "err", "err">>

\* C35: extraction is run on every non-exit message in every phase, before
\* the phase dispatch: the profile after process_message is the profile
\* _extract_info makes of the message, in Questioning and Conclusion as in
\* the earlier phases, and no field changes on a message for which the
\* extraction finds nothing.
C35_ExtractionInEveryPhase ==
    (ProcessDone /\ NonExitMessage) =>
        /\ After.candidate_data = ExtractionOf.cd
        /\ After.calls >= ExtractionOf.calls
        /\ FindsNothing => After.candidate_data = Before.candidate_data

\* an answer to a technical question names a technology, the service is
\* rate-limited, and the keyword is appended to tech_stack
C35_Witness ==
    /\ ProcessDone
    /\ Before.conversation_phase = "Questioning"
    /\ call.args.user_input = <<"react">>
    /\ ExtractionOf.path = "fallback"
    /\ After.candidate_data.tech_stack # Before.candidate_data.tech_stack

EntersQuestioning ==
    Before.conversation_phase = "InfoGathering" /\ After.conversation_phase = "Questioning"

\* C37: the question list is written once, at the step from InfoGathering to
\* Questioning, together with the reset of current_question_index to 0; no
\* other process_message call, in any phase, changes the list, even when
\* the message changes tech_stack or experience_years.
C37_QuestionsWrittenOnce ==
    ProcessDone =>
        /\ EntersQuestioning =>
              /\ Before.questions = <<>>
              /\ After.questions # <<>>
              /\ After.current_question_index = 0
        /\ ~EntersQuestioning => After.questions = Before.questions
        /\ After.questions # <<>> => After.conversation_phase \in {"Questioning", "Conclusion"}

\* the answer to the first question makes the experience 1 year: the advanced
\* questions drawn for 7 years stay
C37_Witness ==
    /\ ProcessDone
    /\ Before = AtFirstQuestion
    /\ Before.candidate_data.experience_years = Some(<<"7">>)
    /\ After.candidate_data.experience_years = Some(<<"1">>)
    /\ After.questions = Before.questions
    /\ After.questions[1].tier = "advanced"

----------------------------------------------------------------------------
(* The question list and the index *)

\* C36: whenever the phase is Questioning or Conclusion the question list has
\* at least 3 entries and 0 <= current_question_index < len(questions), so
\* that questions[current_question_index] and questions[0] exist.
C36_IndexInRange ==
    conversation_phase \in {"Questioning", "Conclusion"} =>
        /\ Len(questions) >= 3
        /\ 0 <= current_question_index
        /\ current_question_index < Len(questions)

\* a message is answered in Conclusion, after the last question was reached
C36_Witness ==
    /\ conversation_phase = "Conclusion"
    /\ last.branch = "Conclusion"
    /\ current_question_index = Len(questions) - 1
    /\ Len(questions) = 3

\* the numbers of the technical questions the assistant has put so far
EmittedQuestions ==
    { conversation_history[i].content.number :
        i \in { j \in 1..Len(conversation_history) :
                  /\ conversation_history[j].role = "assistant"
                  /\ conversation_history[j].content.kind \in {"intro", "question"} } }

\* C39: questions_asked of get_session_summary is the number of distinct
\* technical questions put to the candidate so far: 0 before Questioning,
\* and total_questions once every question has been put.
C39_QuestionsAskedCountsEmitted ==
    get_session_summary(Engine).questions_asked = Cardinality(EmittedQuestions)

----------------------------------------------------------------------------
(* Agreement of the three readings of a profile *)

\* the fields is_complete and missing_fields take as populated
TruthyFields(cd) == {f \in FieldNames : Truthy(cd[f])}

\* the weights of the fields of the set fs
WeightOf(fs) ==
    Cardinality({i \in 1..Len(RequiredFields) : RequiredFields[i] \in fs}) * RequiredWeight
    + Cardinality({i \in 1..Len(OptionalFields) : OptionalFields[i] \in fs}) * OptionalWeight

\* C38: completion_percentage, missing_fields and is_complete agree on which
\* fields are populated in the profile a fallback extraction leaves: a field
\* adds its weight (15 or 5) to completion_percentage exactly if is_complete
\* and missing_fields take it as populated, and is_complete is true exactly
\* if missing_fields is empty.
C38_ReadingsAgree ==
    FallbackDone =>
        /\ completion_percentage(call.result) = Min(WeightOf(TruthyFields(call.result)), 100)
        /\ is_complete(call.result) <=> missing_fields(call.result) = <<>>

----------------------------------------------------------------------------
(* Two sessions: the caches and the isolation *)

\* the key under which start_chat's greeting is cached
GreetingKey == _get_cache_key(GreetingPrompt, 8)

PeerStarts == ~peer.initialized /\ peer'.initialized
OwnStarts == ~initialized /\ initialized'

\* C31: the response cache is process-wide and shared by the sessions: a
\* response one session's generate call cached is returned as a cache hit
\* to the other session issuing the same prompt and temperature with
\* caching enabled (the greeting of start_chat), without a service call.
C31_CacheSharedAcrossSessions ==
    [][ /\ (PeerStarts /\ GreetingKey \in DOMAIN cache) =>
              /\ peer'.engine.calls = 0
              /\ peer'.engine.response = cache[GreetingKey]
        /\ (OwnStarts /\ GreetingKey \in DOMAIN peer.engine.cache) =>
              /\ last'.calls = 0
              /\ last'.response = peer.engine.cache[GreetingKey]
      ]_vars

\* C31, amended: the cache belongs to one session's client.  A response one
\* session cached is no cache hit for the other: the other session issuing
\* the same prompt asks the service, a successful answer goes into its own
\* cache, and the entry of the first session stays as it was.
C31_CachePerSession ==
    [][ /\ (PeerStarts /\ GreetingKey \in DOMAIN cache) =>
              /\ peer'.engine.calls = 1
              /\ GreetingKey \in DOMAIN peer'.engine.cache =>
                    peer'.engine.cache[GreetingKey] = peer'.engine.response
              /\ cache' = cache
        /\ (OwnStarts /\ GreetingKey \in DOMAIN peer.engine.cache) =>
              /\ last'.calls = 1
              /\ GreetingKey \in DOMAIN cache' => cache'[GreetingKey] = last'.response
              /\ peer'.engine.cache = peer.engine.cache
      ]_vars

\* both sessions hold a greeting in their caches, and not the same one
C31_Witness ==
    /\ GreetingKey \in DOMAIN cache
    /\ GreetingKey \in DOMAIN peer.engine.cache
    /\ cache[GreetingKey] # peer.engine.cache[GreetingKey]

\* C33: with the steps of two sessions interleaved in any order, a step of
\* one session leaves the other session's profile, phase, history, question
\* list, index and cache unchanged, and what the step does (the response
\* included) is what the session would do alone with the same message and
\* the same service behaviour.
C33_SessionsIsolated ==
    [][ /\ peer' # peer =>
              /\ session_own' = session_own
              /\ peer'.engine \in OwnSteps(peer.engine, peer.initialized)
        /\ session_own' # session_own =>
              /\ peer' = peer
              /\ Engine' \in OwnSteps(Engine, initialized)
      ]_vars

\* both sessions have answered messages and hold different profiles, one of
\* them at its second message
C33_Witness ==
    /\ initialized /\ peer.initialized
    /\ UserMessages(conversation_history) = 1
    /\ UserMessages(peer.engine.conversation_history) = 2
    /\ candidate_data.full_name = Some(<<"John", "Smith">>)
    /\ peer.engine.candidate_data.full_name = Some(<<"Ann", "Lee">>)
    /\ cache # peer.engine.cache

====
